---- MODULE Spec2Model ----
(***************************************************************************)
(* ThreatSentry: the sensor-fusion engine (gui.rs), the sensor monitors    *)
(* (kernel_monitor.rs, mic_monitor.rs, thermal_monitor.rs,                 *)
(* email_monitor.rs) and the command-line full scan (main.rs).             *)
(*                                                                         *)
(* Conventions.  Every thread is a program counter plus its locals; one    *)
(* action is one step between two synchronisation points of the code.      *)
(* f32 quantities are scaled integers: temperatures in tenths of a degree, *)
(* band powers in thousandths, memory in megabytes.  Time is counted in    *)
(* milliseconds; a step that runs code takes at least one millisecond.     *)
(* Text is a sequence of one-character strings.                            *)
(***************************************************************************)
EXTENDS Integers, Sequences, FiniteSets, TLC

\* ---------------------------------------------------------------- bounds
\* coordinating-loop threads that can be spawned (calls of start that pass the flag test)
MaxLoops == 2
\* worker loops one monitor instance can have spawned
MaxWorkers == 2
\* iterations one coordinating loop may begin
MaxCycles == 1
\* iterations the coordinating loop of a single session may begin
MaxSessionCycles == 2
\* iterations of the coordinating loop in the history check, above HISTORY_CAP
MaxAppends == 102
\* the first iterations of the history check, in which the readings vary
MaxVaried == 3
\* calls of check_temperature by a client of a ThermalMonitor
MaxChecks == 3
\* sample blocks the capture callback delivers to one analyzer
MaxAnalyzerBlocks == 3
\* iterations of the simulated audio loop
MaxTicks == 5
\* capture callbacks delivered to one sample buffer
MaxBlocks == 2

\* ---------------------------------------------------- program constants
HISTORY_CAP == 100
THERMAL_HISTORY_CAP == 10
WINDOW_SIZE == 4096
SLEEP_MS == 100
EMAIL_GATE_MS == 60000
SPIKE_GATE_MS == 10000
USB_BASE_SCORE == 30
LOGIN_SCORE == 70
OTHER_SCORE == 30

Threads == 1..MaxLoops
Workers == 1..MaxWorkers

\* ------------------------------------------------------------- helpers
Min(a, b) == IF a < b THEN a ELSE b
Max(a, b) == IF a > b THEN a ELSE b

RECURSIVE SumSeq(_)
SumSeq(s) == IF s = <<>> THEN 0 ELSE Head(s) + SumSeq(Tail(s))

RECURSIVE MaxSeq(_)
MaxSeq(s) == IF s = <<>> THEN 0 ELSE Max(Head(s), MaxSeq(Tail(s)))

UPPER == <<"A","B","C","D","E","F","G","H","I","J","K","L","M","N","O","P","Q","R","S","T","U","V","W","X","Y","Z">>
LOWER == <<"a","b","c","d","e","f","g","h","i","j","k","l","m","n","o","p","q","r","s","t","u","v","w","x","y","z">>

\* str::to_lowercase, one character
LowerChar(c) == IF \E i \in 1..26 : UPPER[i] = c
                THEN LOWER[CHOOSE i \in 1..26 : UPPER[i] = c]
                ELSE c

\* str::to_lowercase
ToLowercase(s) == [i \in 1..Len(s) |-> LowerChar(s[i])]

\* str::contains; x and y name the values of the two arguments
Contains(s, sub) ==
    \E x \in {s}, y \in {sub} :
        \E i \in 0..(Len(x) - Len(y)) : SubSeq(x, i + 1, i + Len(y)) = y

\* a push that drops the pushed value once the buffer is full
PushKeepOldest(h, v, cap) == IF Len(h) + 1 > cap THEN h ELSE Append(h, v)

\* Vec::push followed by `if len > cap { remove(0) }`
PushCapped(h, v, cap) == IF Len(h) + 1 > cap THEN Tail(Append(h, v)) ELSE Append(h, v)

\* ------------------------------------------------- kernel_monitor.rs
\* the table of calculate_process_score
suspicious_names ==
    << <<<<"m","i","n","e","r">>, 50>>,
       <<<<"x","m","r","i","g">>, 70>>,
       <<<<"c","r","y","p","t","o","n","i","g","h","t">>, 60>>,
       <<<<"m","o","n","e","r","o">>, 50>>,
       <<<<"e","t","h","m","i","n","e","r">>, 60>>,
       <<<<"c","g","m","i","n","e","r">>, 60>>,
       <<<<"b","f","g","m","i","n","e","r">>, 60>>,
       <<<<"n","i","c","e","h","a","s","h">>, 50>>,
       <<<<"b","a","c","k","d","o","o","r">>, 80>>,
       <<<<"t","r","o","j","a","n">>, 90>>,
       <<<<"k","e","y","l","o","g","g","e","r">>, 90>>,
       <<<<"s","p","y","w","a","r","e">>, 80>>,
       <<<<"m","a","l","w","a","r","e">>, 90>>,
       <<<<"v","i","r","u","s">>, 90>>,
       <<<<"r","o","o","t","k","i","t">>, 90>>,
       <<<<"e","x","p","l","o","i","t">>, 70>> >>

\* CPU part of calculate_process_score (cpu in percent)
CpuBand(cpu) == IF cpu > 90 THEN 40 ELSE IF cpu > 70 THEN 30 ELSE IF cpu > 50 THEN 20 ELSE 0

\* memory part of calculate_process_score (memory in MB)
MemoryBand(mb) == IF mb > 1000 THEN 30 ELSE IF mb > 500 THEN 20 ELSE IF mb > 200 THEN 10 ELSE 0

\* the largest name_score among the table entries contained in the name
NameFloor(name) ==
    MaxSeq([i \in 1..Len(suspicious_names) |->
              IF Contains(ToLowercase(name), suspicious_names[i][1])
              THEN suspicious_names[i][2] ELSE 0])

\* a score that takes the first keyword of the table found in the name
calculate_score_first_keyword(name, cpu, mb) ==
    LET hits == { i \in 1..Len(suspicious_names) :
                    Contains(ToLowercase(name), suspicious_names[i][1]) }
        first == CHOOSE i \in hits : \A h \in hits : i <= h
    IN  Min(Max(CpuBand(cpu) + MemoryBand(mb),
                IF hits = {} THEN 0 ELSE suspicious_names[first][2]), 100)

calculate_process_score(name, cpu, mb) ==
    Min(Max(CpuBand(cpu) + MemoryBand(mb), NameFloor(name)), 100)

is_process_suspicious(p) ==
    \/ p.cpu_usage > 70
    \/ p.memory_usage > 500
    \/ \E i \in 1..Len(suspicious_names) : Contains(ToLowercase(p.name), suspicious_names[i][1])

\* one line of the process listing, as get_running_processes builds it
ProcessInfo(name, pid, cpu, mb) ==
    [name |-> name, pid |-> pid, cpu_usage |-> cpu, memory_usage |-> mb,
     suspicious_score |-> calculate_process_score(name, cpu, mb)]

\* the processes flagged in one listing, in listing order
RECURSIVE SuspiciousOf(_)
SuspiciousOf(listing) ==
    IF listing = <<>> THEN <<>>
    ELSE IF is_process_suspicious(Head(listing))
         THEN <<Head(listing)>> \o SuspiciousOf(Tail(listing))
         ELSE SuspiciousOf(Tail(listing))

\* the devices of one USB listing whose id is not yet known, in listing order;
\* an id is known from its first occurrence on
RECURSIVE NewDevicesOf(_, _)
NewDevicesOf(devices, known) ==
    IF devices = <<>> THEN <<>>
    ELSE IF Head(devices).device_id \in known
         THEN NewDevicesOf(Tail(devices), known)
         ELSE <<Head(devices)>> \o NewDevicesOf(Tail(devices), known \cup {Head(devices).device_id})

\* KernelMonitor::get_threat_score over the two lists
KernelScoreOf(suspicious, newUsb) ==
    LET process_score ==
            IF suspicious = <<>> THEN 0
            ELSE LET max_score == MaxSeq([i \in 1..Len(suspicious) |-> suspicious[i].suspicious_score])
                     c == Min(Len(suspicious), 5)
                 IN  (max_score * (70 + 6 * c)) \div 100
        usb_score ==
            IF newUsb = <<>> THEN 0
            ELSE (USB_BASE_SCORE * (3 + Min(Len(newUsb), 3))) \div 3
    IN  Min(Max(process_score, usb_score), 100)

\* ------------------------------------------------------------ state
VARIABLES
    app,        \* gui.rs MonitoringData, with the two history guards the loop keeps
    eng,        \* per coordinating thread: position and locals of the spawned closure
    thermal,    \* per coordinating thread: its ThermalMonitor
    kernel,     \* per coordinating thread: its KernelMonitor (shared fields)
    kworker,    \* per KernelMonitor and start call: the spawned monitoring thread
    mic,        \* per coordinating thread: its MicMonitor (shared fields)
    mworker,    \* per MicMonitor and start call: FFT thread, sample buffer, simulation thread
    scan,       \* main.rs run_full_scan: position and locals
    hist_log,   \* every value ever appended to the three engine-level histories
    locks       \* the mutexes held, and each thread's position in its sequence of locks

vars == <<app, eng, thermal, kernel, kworker, mic, mworker, scan, hist_log, locks>>

\* KernelMonitor::new; spawned counts the calls of start_monitoring
KernelMonitor_new ==
    [processes |-> <<>>, usb_devices |-> <<>>, is_monitoring |-> FALSE,
     suspicious_processes |-> <<>>, new_usb_devices |-> <<>>, spawned |-> 0]

\* a monitoring thread that was never spawned
KernelWorker_none == [pc |-> "none", known_usb_ids |-> {}]

\* HashMap::insert of every listed process, keyed by pid; the map is kept as
\* the sequence of its entries in insertion order of the keys
RECURSIVE InsertAll(_, _)
InsertAll(map, listing) ==
    IF listing = <<>> THEN map
    ELSE LET p == Head(listing)
             hit == { i \in 1..Len(map) : map[i].pid = p.pid }
             next == IF hit = {} THEN Append(map, p)
                     ELSE [i \in 1..Len(map) |-> IF i \in hit THEN p ELSE map[i]]
         IN  InsertAll(next, Tail(listing))

\* KernelMonitor::start_monitoring: sets the flag and spawns a thread, unconditionally
KernelStart(k) ==
    /\ kernel[k].spawned < MaxWorkers
    /\ kernel' = [kernel EXCEPT ![k].is_monitoring = TRUE, ![k].spawned = @ + 1]
    /\ kworker' = [kworker EXCEPT ![k][kernel[k].spawned + 1] =
                       [pc |-> "check", known_usb_ids |-> {}]]

\* KernelMonitor::stop_monitoring
KernelStop(k) ==
    /\ kernel' = [kernel EXCEPT ![k].is_monitoring = FALSE]
    /\ UNCHANGED kworker

\* `while *is_monitoring_clone.lock().unwrap()`: the thread wakes and reads the flag
KernelLoopCheck(k, w) ==
    /\ kworker[k][w].pc = "check"
    /\ kworker' = [kworker EXCEPT ![k][w].pc =
                       IF kernel[k].is_monitoring THEN "body" ELSE "done"]
    /\ UNCHANGED <<app, eng, thermal, kernel, mic, mworker, scan, hist_log, locks>>

\* an iteration whose USB cycle replaces the list of new devices by the devices
\* that are new in this listing
KernelIterationDraining(k, w, pdue, pres, udue, ures) ==
    \E suspicious \in {SuspiciousOf(pres.v)},
       new_devices \in {NewDevicesOf(ures.v, kworker[k][w].known_usb_ids)},
       pcycle \in {pdue /\ pres.ok},
       ucycle \in {udue /\ ures.ok} :
        /\ kworker[k][w].pc = "body"
        /\ kworker' = [kworker EXCEPT
               ![k][w].pc = "check",
               ![k][w].known_usb_ids =
                   IF ucycle THEN @ \cup { ures.v[j].device_id : j \in 1..Len(ures.v) } ELSE @]
        /\ kernel' = [kernel EXCEPT
               ![k].processes = IF pcycle THEN InsertAll(@, pres.v) ELSE @,
               ![k].suspicious_processes = IF pcycle /\ suspicious # <<>> THEN suspicious ELSE @,
               ![k].usb_devices = IF ucycle THEN ures.v ELSE @,
               ![k].new_usb_devices = IF ucycle THEN new_devices ELSE @]
        /\ UNCHANGED <<app, eng, thermal, mic, mworker, scan, hist_log, locks>>

\* one iteration body of the monitoring thread, then the 500 ms sleep.  pdue and
\* udue say whether 2 s and 5 s have elapsed, pres and ures are what
\* get_running_processes and get_usb_devices returned
KernelIteration(k, w, pdue, pres, udue, ures) ==
    \E suspicious \in {SuspiciousOf(pres.v)},
       new_devices \in {NewDevicesOf(ures.v, kworker[k][w].known_usb_ids)},
       pcycle \in {pdue /\ pres.ok},
       ucycle \in {udue /\ ures.ok} :
        /\ kworker[k][w].pc = "body"
        /\ kworker' = [kworker EXCEPT
               ![k][w].pc = "check",
               ![k][w].known_usb_ids =
                   IF ucycle THEN @ \cup { ures.v[j].device_id : j \in 1..Len(ures.v) } ELSE @]
        /\ kernel' = [kernel EXCEPT
               ![k].processes = IF pcycle THEN InsertAll(@, pres.v) ELSE @,
               ![k].suspicious_processes = IF pcycle /\ suspicious # <<>> THEN suspicious ELSE @,
               ![k].usb_devices = IF ucycle THEN ures.v ELSE @,
               ![k].new_usb_devices = IF ucycle THEN @ \o new_devices ELSE @]
        /\ UNCHANGED <<app, eng, thermal, mic, mworker, scan, hist_log, locks>>

\* KernelMonitor::get_suspicious_processes
get_suspicious_processes(k) == kernel[k].suspicious_processes

\* KernelMonitor::get_new_usb_devices
get_new_usb_devices(k) == kernel[k].new_usb_devices

\* KernelMonitor::get_threat_score
KernelMonitor_get_threat_score(k) ==
    KernelScoreOf(kernel[k].suspicious_processes, kernel[k].new_usb_devices)

\* ---------------------------------------------------- mic_monitor.rs
\* a spectrum is kept as its number of bins and what produced it
EmptySpectrum == [bins |-> 0, shape |-> "empty"]

\* MicMonitor::new; stream_handle is 0 for None, else the start call whose
\* stream it holds; spawned counts the calls of start_monitoring
MicMonitor_new ==
    [is_monitoring |-> FALSE, high_freq_detected |-> FALSE, frequency_power |-> 0,
     sample_rate |-> 44100, fft_results |-> EmptySpectrum, ultrasonic_power |-> 0,
     stream_handle |-> 0, spawned |-> 0]

\* what one call of start_monitoring leaves behind when it was never made
MicWorker_none ==
    [fft_pc |-> "none", min_freq_idx |-> 0, max_freq_idx |-> 0, avg_power |-> 0,
     fft_buffer |-> <<>>, buffer_lock |-> FALSE, blocks |-> 0, magnitudes |-> <<>>,
     sim_pc |-> "none", i |-> 0, power |-> 0]

\* number of samples in a buffer kept as runs <<signal, count>>
RECURSIVE BufLen(_)
BufLen(b) == IF b = <<>> THEN 0 ELSE Head(b)[2] + BufLen(Tail(b))

\* VecDeque::push_back of a block of n equal samples
PushBlock(b, sig, n) ==
    IF n = 0 THEN b
    ELSE IF b # <<>> /\ b[Len(b)][1] = sig
         THEN [b EXCEPT ![Len(b)] = <<sig, @[2] + n>>]
         ELSE Append(b, <<sig, n>>)

\* the n oldest samples of a buffer
RECURSIVE TakeFront(_, _)
TakeFront(b, n) ==
    IF n = 0 \/ b = <<>> THEN <<>>
    ELSE IF Head(b)[2] <= n
         THEN <<Head(b)>> \o TakeFront(Tail(b), n - Head(b)[2])
         ELSE << <<Head(b)[1], n>> >>

\* what `drain(..n)` leaves in the buffer
RECURSIVE DropFront(_, _)
DropFront(b, n) ==
    IF n = 0 \/ b = <<>> THEN b
    ELSE IF Head(b)[2] <= n
         THEN DropFront(Tail(b), n - Head(b)[2])
         ELSE << <<Head(b)[1], Head(b)[2] - n>> >> \o Tail(b)

\* the sample at position i of a buffer, the oldest at position 1
RECURSIVE SampleAt(_, _)
SampleAt(b, i) ==
    IF i <= Head(b)[2] THEN Head(b)[1] ELSE SampleAt(Tail(b), i - Head(b)[2])

\* a drain that leaves the newer half of the window for the next one
DrainOverlapping(b, n) == [window |-> TakeFront(b, n), rest |-> DropFront(b, n \div 2)]

\* `buffer_lock.drain(..buffer_size).collect()`: the window and what stays buffered
Drain(b, n) == [window |-> TakeFront(b, n), rest |-> DropFront(b, n)]

\* a window of silence: every bin of its transform is 0
AllZero(window) == \A j \in 1..Len(window) : window[j][1] = "zero"

\* `(f / freq_resolution) as usize` with freq_resolution = sample_rate / buffer_size
FreqIdx(f, rate) == (f * WINDOW_SIZE) \div rate

\* the slice bounds of ultrasonic_range, both clipped to the spectrum length
BandLo(wk) == Min(wk.min_freq_idx, WINDOW_SIZE \div 2)
BandHi(wk) == Min(wk.max_freq_idx, WINDOW_SIZE \div 2)

\* a magnitude spectrum is kept as runs <<magnitude in thousandths, bins>>;
\* the spectrum of a window of silence, which is not normalized
ZeroSpectrum == << <<0, WINDOW_SIZE \div 2>> >>

\* a normalized spectrum: magnitude 1.0 at bin p and v at every other bin
PeakAt(p, v) ==
    (IF p > 0 THEN << <<v, p>> >> ELSE <<>>) \o << <<1000, 1>> >>
        \o (IF p + 1 < WINDOW_SIZE \div 2
            THEN << <<v, WINDOW_SIZE \div 2 - (p + 1)>> >> ELSE <<>>)

\* the sum of the first n bins of a spectrum
RECURSIVE SumFirst(_, _)
SumFirst(sp, n) ==
    IF n = 0 \/ sp = <<>> THEN 0
    ELSE IF Head(sp)[2] <= n
         THEN Head(sp)[1] * Head(sp)[2] + SumFirst(Tail(sp), n - Head(sp)[2])
         ELSE Head(sp)[1] * n

\* `range.iter().sum::<f32>() / range.len() as f32` of the slice sp[from..to]
SliceMean(sp, from, to) == (SumFirst(sp, to) - SumFirst(sp, from)) \div (to - from)

\* the simulated power `0.2 + (i as f32 % 10.0) / 30.0`, in thousandths
SimPower(i) == 200 + ((i % 10) * 1000) \div 30

\* a score of 50 + 500 * power that is not capped
MicScoreUncapped(latched, power) ==
    IF latched THEN (50000 + power * 500) \div 1000 ELSE 0

\* MicMonitor::get_threat_score from the two fields it reads
MicScoreOf(latched, power) ==
    IF latched THEN Min((50000 + power * 500) \div 1000, 100) ELSE 0

MicMonitor_get_threat_score(k) ==
    MicScoreOf(mic[k].high_freq_detected, mic[k].frequency_power)

\* MicMonitor::get_fft_results
get_fft_results(k) == mic[k].fft_results

\* MicMonitor::get_ultrasonic_power
get_ultrasonic_power(k) == mic[k].ultrasonic_power

\* start_simulated_monitoring: the thread it spawns for start call w
SimSpawned(wk) == [wk EXCEPT !.sim_pc = "check", !.i = 0]

\* the FFT thread spawned by start call w, with the band indices it computes once
FftSpawned(wk, rate) ==
    [wk EXCEPT !.fft_pc = "check",
               !.min_freq_idx = FreqIdx(15000, rate),
               !.max_freq_idx = FreqIdx(20000, rate)]

\* MicMonitor::start_monitoring; audio is what the audio host answers:
\*   "no_device", "no_config"      fall back before the FFT thread exists
\*   "bad_format", "stream_error"  fall back after the FFT thread was spawned
\*   "ok"                          the input stream is built and stored
MicStart(k, audio, rate) ==
    LET w == mic[k].spawned + 1
        early == audio \in {"no_device", "no_config"}
    IN  /\ mic[k].spawned < MaxWorkers
        /\ mic' = [mic EXCEPT
               ![k].is_monitoring = TRUE,
               ![k].spawned = w,
               ![k].sample_rate = IF early THEN @ ELSE rate,
               ![k].stream_handle = IF audio = "ok" THEN w ELSE @]
        /\ mworker' = [mworker EXCEPT ![k][w] =
               IF early THEN SimSpawned(@)
               ELSE IF audio = "ok" THEN FftSpawned(@, rate)
               ELSE SimSpawned(FftSpawned(@, rate))]

\* a stop that also resets the latch
MicStopClearingLatch(k) ==
    /\ mic' = [mic EXCEPT ![k].is_monitoring = FALSE, ![k].stream_handle = 0,
                          ![k].high_freq_detected = FALSE]
    /\ UNCHANGED mworker

\* MicMonitor::stop_monitoring
MicStop(k) ==
    /\ mic' = [mic EXCEPT ![k].is_monitoring = FALSE, ![k].stream_handle = 0]
    /\ UNCHANGED mworker

\* the capture callback of build_input_stream for the stream of start call w:
\* it runs while the stream is stored, needs the buffer lock, and appends its
\* block only while the flag is set
MicCallback(k, w, sig, n) ==
    /\ mic[k].stream_handle = w
    /\ mic[k].is_monitoring
    /\ ~mworker[k][w].buffer_lock
    /\ mworker' = [mworker EXCEPT
           ![k][w].fft_buffer = PushBlock(@, sig, n),
           ![k][w].blocks = @ + 1]
    /\ UNCHANGED <<app, eng, thermal, kernel, kworker, mic, scan, hist_log, locks>>

\* FFT thread: `while *is_monitoring_clone.lock().unwrap()`
FftLoopCheck(k, w) ==
    /\ mworker[k][w].fft_pc = "check"
    /\ mworker' = [mworker EXCEPT ![k][w].fft_pc =
                       IF mic[k].is_monitoring THEN "window" ELSE "done"]
    /\ UNCHANGED <<app, eng, thermal, kernel, kworker, mic, scan, hist_log, locks>>

\* FftWindow publishing a spectrum of whatever the buffer holds
FftWindowPublishingShort(k, w, sp) ==
    LET wk == mworker[k][w]
        full == BufLen(wk.fft_buffer) >= WINDOW_SIZE
        window == Drain(wk.fft_buffer, WINDOW_SIZE).window
        mags == IF AllZero(window) THEN ZeroSpectrum ELSE sp
        avg == SliceMean(mags, BandLo(wk), BandHi(wk))
        band == BandLo(wk) < BandHi(wk)
        latch == full /\ band /\ avg > 200
    IN  /\ wk.fft_pc = "window"
        /\ ~wk.buffer_lock
        /\ mworker' = [mworker EXCEPT
               ![k][w].buffer_lock = TRUE,
               ![k][w].fft_buffer = IF full THEN Drain(@, WINDOW_SIZE).rest ELSE @,
               ![k][w].magnitudes = IF full THEN mags ELSE @,
               ![k][w].avg_power = IF full /\ band THEN avg ELSE @,
               ![k][w].fft_pc = IF latch THEN "power" ELSE "sleep"]
        /\ mic' = [mic EXCEPT
               ![k].fft_results =
                   IF TRUE THEN [bins |-> WINDOW_SIZE \div 2,
                                 shape |-> IF AllZero(window) THEN "zero" ELSE "normalized"]
                   ELSE @,
               ![k].ultrasonic_power = IF full /\ band THEN avg ELSE @,
               ![k].high_freq_detected = IF latch THEN TRUE ELSE @]
        /\ UNCHANGED <<app, eng, thermal, kernel, kworker, scan, hist_log, locks>>

\* FFT thread: takes the buffer lock and, with a full window buffered, drains it,
\* publishes the spectrum and the band power and sets the latch; sp is the
\* normalized spectrum of a window that is not silent.  The lock stays held.
FftWindow(k, w, sp) ==
    LET wk == mworker[k][w]
        full == BufLen(wk.fft_buffer) >= WINDOW_SIZE
        window == Drain(wk.fft_buffer, WINDOW_SIZE).window
        mags == IF AllZero(window) THEN ZeroSpectrum ELSE sp
        avg == SliceMean(mags, BandLo(wk), BandHi(wk))
        band == BandLo(wk) < BandHi(wk)
        latch == full /\ band /\ avg > 200
    IN  /\ wk.fft_pc = "window"
        /\ ~wk.buffer_lock
        /\ mworker' = [mworker EXCEPT
               ![k][w].buffer_lock = TRUE,
               ![k][w].fft_buffer = IF full THEN Drain(@, WINDOW_SIZE).rest ELSE @,
               ![k][w].magnitudes = IF full THEN mags ELSE @,
               ![k][w].avg_power = IF full /\ band THEN avg ELSE @,
               ![k][w].fft_pc = IF latch THEN "power" ELSE "sleep"]
        /\ mic' = [mic EXCEPT
               ![k].fft_results =
                   IF full THEN [bins |-> WINDOW_SIZE \div 2,
                                 shape |-> IF AllZero(window) THEN "zero" ELSE "normalized"]
                   ELSE @,
               ![k].ultrasonic_power = IF full /\ band THEN avg ELSE @,
               ![k].high_freq_detected = IF latch THEN TRUE ELSE @]
        /\ UNCHANGED <<app, eng, thermal, kernel, kworker, scan, hist_log, locks>>

\* FFT thread: `*frequency_power.lock().unwrap() = avg_power`
FftStorePower(k, w) ==
    /\ mworker[k][w].fft_pc = "power"
    /\ mic' = [mic EXCEPT ![k].frequency_power = mworker[k][w].avg_power]
    /\ mworker' = [mworker EXCEPT ![k][w].fft_pc = "sleep"]
    /\ UNCHANGED <<app, eng, thermal, kernel, kworker, scan, hist_log, locks>>

\* FFT thread: the 100 ms sleep ends, the iteration ends and drops buffer_lock
\* and magnitudes
FftWake(k, w) ==
    /\ mworker[k][w].fft_pc = "sleep"
    /\ mworker' = [mworker EXCEPT ![k][w].fft_pc = "check", ![k][w].buffer_lock = FALSE,
                                  ![k][w].magnitudes = <<>>]
    /\ UNCHANGED <<app, eng, thermal, kernel, kworker, mic, scan, hist_log, locks>>

\* simulation thread: `while *is_monitoring_clone.lock().unwrap()`
SimLoopCheck(k, w) ==
    /\ mworker[k][w].sim_pc = "check"
    /\ mworker' = [mworker EXCEPT ![k][w].sim_pc =
                       IF mic[k].is_monitoring THEN "tick" ELSE "done"]
    /\ UNCHANGED <<app, eng, thermal, kernel, kworker, mic, scan, hist_log, locks>>

\* a tick that takes every iteration for a detection
SimTickAlwaysPeak(k, w) ==
    LET i == mworker[k][w].i + 1
    IN  /\ mworker[k][w].sim_pc = "tick"
        /\ mworker' = [mworker EXCEPT
               ![k][w].i = i, ![k][w].power = SimPower(i), ![k][w].sim_pc = "power"]
        /\ mic' = [mic EXCEPT
               ![k].fft_results = [bins |-> 1024, shape |-> "peak"],
               ![k].high_freq_detected = TRUE]
        /\ UNCHANGED <<app, eng, thermal, kernel, kworker, scan, hist_log, locks>>

\* simulation thread: one tick up to the write of high_freq_detected
SimTick(k, w) ==
    LET i == mworker[k][w].i + 1
    IN  /\ mworker[k][w].sim_pc = "tick"
        /\ mworker' = [mworker EXCEPT
               ![k][w].i = i,
               ![k][w].power = IF i % 5 = 0 THEN SimPower(i) ELSE @,
               ![k][w].sim_pc = IF i % 5 = 0 THEN "power" ELSE "check"]
        /\ mic' = [mic EXCEPT
               ![k].fft_results = [bins |-> 1024,
                                   shape |-> IF i % 5 = 0 THEN "peak" ELSE "noise"],
               ![k].high_freq_detected = IF i % 5 = 0 THEN TRUE ELSE @]
        /\ UNCHANGED <<app, eng, thermal, kernel, kworker, scan, hist_log, locks>>

\* simulation thread: the writes of frequency_power and ultrasonic_power, then the sleep
SimStorePower(k, w) ==
    /\ mworker[k][w].sim_pc = "power"
    /\ mic' = [mic EXCEPT ![k].frequency_power = mworker[k][w].power,
                          ![k].ultrasonic_power = mworker[k][w].power]
    /\ mworker' = [mworker EXCEPT ![k][w].sim_pc = "check"]
    /\ UNCHANGED <<app, eng, thermal, kernel, kworker, scan, hist_log, locks>>

\* ------------------------------------------------ thermal_monitor.rs
\* ThermalMonitor::new; last_check is a time stamp on the owning thread's clock
ThermalMonitor_new ==
    [last_temp |-> 0, last_check |-> 0, spike_detected |-> FALSE,
     temperature_history |-> <<>>, cpu_usage_history |-> <<>>]

\* get_system_temperature, in tenths of a degree.  tel is the telemetry of one
\* call: power (GetSystemPowerStatus), cpu1 (the CPU probe made for the estimate)
\* and rnd1 (rand::random, in hundredths)
get_system_temperature(tel) ==
    IF tel.power.ok /\ tel.power.ac = 0 /\ tel.power.battery < 50
    THEN 450 + (100 - tel.power.battery)
    ELSE IF tel.cpu1.ok THEN 400 + 2 * tel.cpu1.v
         ELSE 450 + (tel.rnd1 * 50) \div 100

\* a check that gives up when the CPU probe fails, after taking the time
check_temperature_or_fail(th, tel, now) ==
    IF tel.cpu2.ok
    THEN [last_temp |-> get_system_temperature(tel),
          last_check |-> now,
          spike_detected |-> th.spike_detected,
          temperature_history |->
              PushCapped(th.temperature_history, get_system_temperature(tel), THERMAL_HISTORY_CAP),
          cpu_usage_history |-> PushCapped(th.cpu_usage_history, tel.cpu2.v, THERMAL_HISTORY_CAP)]
    ELSE [th EXCEPT !.last_check = now]

\* ThermalMonitor::check_temperature at time now; cpu2 is the second CPU probe and
\* rnd2 the random number replacing it
check_temperature(th, tel, now) ==
    LET current_temp == get_system_temperature(tel)
        cpu_usage == IF tel.cpu2.ok THEN tel.cpu2.v ELSE tel.rnd2
        spike == /\ th.last_temp > 0
                 /\ current_temp - th.last_temp > 100
                 /\ now - th.last_check < SPIKE_GATE_MS
    IN  [last_temp |-> current_temp,
         last_check |-> now,
         spike_detected |-> th.spike_detected \/ spike,
         temperature_history |-> PushCapped(th.temperature_history, current_temp, THERMAL_HISTORY_CAP),
         cpu_usage_history |-> PushCapped(th.cpu_usage_history, cpu_usage, THERMAL_HISTORY_CAP)]

\* sum of the squares of a history
SumSq(s) == SumSeq([j \in 1..Len(s) |-> s[j] * s[j]])

\* a score that is computed from the histories whether a spike was seen or not
ThermalScoreIgnoringSpike(th) ==
    IF th.temperature_history = <<>> \/ th.cpu_usage_history = <<>> THEN 0
    ELSE LET n == Len(th.temperature_history)
             m == Len(th.cpu_usage_history)
             C == SumSeq(th.cpu_usage_history)
         IN  IF C > 80 * m THEN Min((2 * (C - 80 * m)) \div m, 40) ELSE 0

\* ThermalMonitor::get_threat_score.  With n readings, S their sum in tenths, C the
\* sum of the CPU readings and m their number, the three terms are brought to the
\* denominator d = 10*n*m*(n-1) (10*n*m for n = 1) and the sum is truncated
ThermalScoreOf(th) ==
    IF th.spike_detected THEN 80
    ELSE IF th.temperature_history = <<>> \/ th.cpu_usage_history = <<>> THEN 0
    ELSE LET n == Len(th.temperature_history)
             m == Len(th.cpu_usage_history)
             S == SumSeq(th.temperature_history)
             C == SumSeq(th.cpu_usage_history)
             q == IF n > 1 THEN n - 1 ELSE 1
             d == 10 * n * m * q
             temp_score == IF S > 600 * n THEN Min((2 * S - 1200 * n) * m * q, 40 * d) ELSE 0
             cpu_score == IF C > 80 * m THEN Min(2 * (C - 80 * m) * 10 * n * q, 40 * d) ELSE 0
             variance_score == IF n > 1
                               THEN Min((n * SumSq(th.temperature_history) - S * S) * m, 20 * d)
                               ELSE 0
         IN  (temp_score + cpu_score + variance_score) \div d

\* a score of monitor k made of the CPU term alone
ThermalMonitor_cpu_score(k) == ThermalScoreIgnoringSpike(thermal[k])

\* ThermalMonitor::get_threat_score of monitor k
ThermalMonitor_get_threat_score(k) == ThermalScoreOf(thermal[k])

\* a check whose spike flag follows the latest pair of readings
ThermalMonitor_check_unlatched(k, tel, d) ==
    /\ thermal' = [thermal EXCEPT ![k] =
           [check_temperature(@, tel, @.last_check + d) EXCEPT
               !.spike_detected = /\ thermal[k].last_temp > 0
                                  /\ get_system_temperature(tel) - thermal[k].last_temp > 100
                                  /\ d < SPIKE_GATE_MS]]
    /\ UNCHANGED <<app, eng, kernel, kworker, mic, mworker, scan, hist_log, locks>>

\* ThermalMonitor::check_temperature called by the thread that owns monitor k,
\* d ms after the previous call (or after new)
ThermalMonitor_check_temperature(k, tel, d) ==
    /\ thermal' = [thermal EXCEPT ![k] = check_temperature(@, tel, @.last_check + d)]
    /\ UNCHANGED <<app, eng, kernel, kworker, mic, mworker, scan, hist_log, locks>>

\* -------------------------------------------------- email_monitor.rs
\* a message body is the sequence of its words
SAMPLE_BODY_1 ==
    << <<"C","h","e","c","k">>,
       <<"o","u","t">>,
       <<"t","h","i","s">>,
       <<"l","i","n","k",":">>,
       <<"h","t","t","p","s",":","/","/","e","x","a","m","p","l","e",".","c","o","m","/","l","o","g","i","n">> >>
SAMPLE_BODY_2 ==
    << <<"I","m","p","o","r","t","a","n","t">>,
       <<"s","e","c","u","r","i","t","y">>,
       <<"u","p","d","a","t","e",":">>,
       <<"h","t","t","p","s",":","/","/","s","e","c","u","r","e","-","s","i","t","e",".","c","o","m","/","u","p","d","a","t","e">> >>

\* the sample data fetch_emails returns in place of a mailbox
SampleData == <<SAMPLE_BODY_1, SAMPLE_BODY_2>>

\* EmailMonitor::fetch_emails.  mail is what the IMAP server does:
\*   "connect_fail"   connect or login fails
\*   "session_error"  select, examine, fetch or logout fails
\*   "ok"             the session delivers mail.bodies
fetch_emails(mail) ==
    IF mail.kind = "connect_fail" THEN [ok |-> TRUE, v |-> SampleData]
    ELSE IF mail.kind = "session_error" THEN [ok |-> FALSE, v |-> <<>>]
    ELSE IF mail.bodies = <<>> THEN [ok |-> TRUE, v |-> SampleData]
    ELSE [ok |-> TRUE, v |-> mail.bodies]

\* the regex `https?://[^\s/$.?#].[^\s]*` matched at position p of a word
UrlAt(word, p) ==
    \E scheme \in { <<"h","t","t","p",":","/","/">>, <<"h","t","t","p","s",":","/","/">> } :
        /\ p + Len(scheme) + 1 <= Len(word)
        /\ SubSeq(word, p, p + Len(scheme) - 1) = scheme
        /\ word[p + Len(scheme)] \notin {"/", "$", ".", "?", "#"}

\* the URLs of one body: per word the leftmost match, which runs to the word's end
RECURSIVE UrlsOfBody(_)
UrlsOfBody(b) ==
    IF b = <<>> THEN <<>>
    ELSE LET word == Head(b)
             hits == { p \in 1..Len(word) : UrlAt(word, p) }
         IN  IF hits = {} THEN UrlsOfBody(Tail(b))
             ELSE LET p == CHOOSE x \in hits : \A y \in hits : x <= y
                  IN  <<SubSeq(word, p, Len(word))>> \o UrlsOfBody(Tail(b))

\* EmailMonitor::extract_urls
RECURSIVE extract_urls(_)
extract_urls(emails) ==
    IF emails = <<>> THEN <<>>
    ELSE UrlsOfBody(Head(emails)) \o extract_urls(Tail(emails))

LOGIN == <<"l","o","g","i","n">>

\* a scan that gives every URL the lower score
scan_urls_flat(urls) == [j \in 1..Len(urls) |-> <<urls[j], OTHER_SCORE>>]

\* EmailMonitor::scan_urls
scan_urls(urls) ==
    LET scored == [us \in {urls} |->
                     [j \in 1..Len(us) |->
                        <<us[j], IF Contains(us[j], LOGIN) THEN LOGIN_SCORE ELSE OTHER_SCORE>>]]
    IN  scored[urls]

\* the `max_score` of a scored list
MaxUrlScore(scored) == MaxSeq([j \in 1..Len(scored) |-> scored[j][2]])

\* ---------------------------------------------------------- gui.rs
\* MonitoringData::new; a guard is 0 when free, else the thread holding it
MonitoringData_new ==
    [mic_score |-> 0, thermal_score |-> 0, kernel_score |-> 0, email_score |-> 0,
     combined_score |-> 0, temperature_history |-> <<>>, mic_power_history |-> <<>>,
     time_history |-> <<>>, urls |-> <<>>, suspicious_processes |-> <<>>,
     new_usb_devices |-> <<>>, is_monitoring |-> FALSE, fft_data |-> EmptySpectrum,
     mic_history_guard |-> 0, time_points_guard |-> 0]

\* a coordinating thread that was never spawned.  now is the thread's clock in
\* ms since `start_time`; cycles counts the iterations begun; mail_obtained
\* records that a fetch of this loop returned Ok
EngineThread_none ==
    [pc |-> "none", now |-> 0, last_email_check |-> 0, mic_score_val |-> 0,
     thermal_score_val |-> 0, kernel_score_val |-> 0, cycles |-> 0,
     mail_obtained |-> FALSE]

\* `(sum / scores.len() as u32) as u8`
MeanScore(scores) == IF scores = <<>> THEN 0 ELSE SumSeq(scores) \div Len(scores)

\* the text pushed for one suspicious process: name, PID, CPU and score
FormatProcess(p) == <<p.name, p.pid, p.cpu_usage, p.suspicious_score>>

\* the text pushed for one new USB device: description and ID
FormatDevice(d) == <<d.description, d.device_id>>

\* the sample appended to mic_power_history, in thousandths
MicPowerSample(mic_score_val, ultrasonic_power) ==
    IF mic_score_val > 0
    THEN IF ultrasonic_power > 0 THEN ultrasonic_power ELSE mic_score_val * 5 + 50
    ELSE 0

\* a start that spawns a coordinating thread whatever the flag says
StartMonitoringUnguarded ==
    /\ \E t \in Threads : eng[t].pc = "none"
    /\ LET t == CHOOSE x \in Threads : eng[x].pc = "none" /\ \A y \in Threads : eng[y].pc = "none" => x <= y
       IN  /\ app' = [app EXCEPT !.is_monitoring = TRUE]
           /\ eng' = [eng EXCEPT ![t].pc = "start"]
           /\ thermal' = [thermal EXCEPT ![t] = ThermalMonitor_new]
           /\ kernel' = [kernel EXCEPT ![t] = KernelMonitor_new]
           /\ mic' = [mic EXCEPT ![t] = MicMonitor_new]
           /\ UNCHANGED <<kworker, mworker, scan, hist_log, locks>>

\* ThreatSentryApp::start_monitoring: test and set of the flag under one lock, then
\* the spawn of the coordinating thread, which creates its own monitors
StartMonitoring ==
    IF app.is_monitoring
    THEN UNCHANGED vars
    ELSE /\ \E t \in Threads : eng[t].pc = "none"
         /\ LET t == CHOOSE x \in Threads : eng[x].pc = "none" /\ \A y \in Threads : eng[y].pc = "none" => x <= y
            IN  /\ app' = [app EXCEPT !.is_monitoring = TRUE]
                /\ eng' = [eng EXCEPT ![t].pc = "start"]
                /\ thermal' = [thermal EXCEPT ![t] = ThermalMonitor_new]
                /\ kernel' = [kernel EXCEPT ![t] = KernelMonitor_new]
                /\ mic' = [mic EXCEPT ![t] = MicMonitor_new]
                /\ UNCHANGED <<kworker, mworker, scan, hist_log, locks>>

\* ThreatSentryApp::stop_monitoring
StopMonitoring ==
    /\ app' = [app EXCEPT !.is_monitoring = FALSE]
    /\ UNCHANGED <<eng, thermal, kernel, kworker, mic, mworker, scan, hist_log, locks>>

\* coordinating thread: `mic_monitor.start_monitoring()`,
\* `kernel_monitor.start_monitoring()`, then start_time and
\* `last_email_check = Instant::now() - 60 s`
EngineStartMonitors(t, audio, rate) ==
    /\ eng[t].pc = "start"
    /\ MicStart(t, audio, rate)
    /\ KernelStart(t)
    /\ eng' = [eng EXCEPT ![t].pc = "check", ![t].now = 0,
                          ![t].last_email_check = 0 - EMAIL_GATE_MS]
    /\ UNCHANGED <<app, thermal, scan, hist_log, locks>>

\* coordinating thread: `while *is_monitoring_clone.lock().unwrap()`
EngineLoopCheck(t) ==
    /\ eng[t].pc = "check"
    /\ eng' = [eng EXCEPT
           ![t].pc = IF app.is_monitoring THEN "sense" ELSE "stop",
           ![t].cycles = IF app.is_monitoring THEN @ + 1 ELSE @]
    /\ UNCHANGED <<app, thermal, kernel, kworker, mic, mworker, scan, hist_log, locks>>

\* coordinating thread, first part of an iteration: check_temperature (its probes
\* take d ms) and the append to temperature_history; the thermal, microphone and
\* kernel scores; FFT data, suspicious processes and new USB devices
EngineSense(t, tel, d) ==
    LET now == eng[t].now + d
        th == check_temperature(thermal[t], tel, now)
        suspicious == get_suspicious_processes(t)
        usb_devices == get_new_usb_devices(t)
    IN  /\ eng[t].pc = "sense"
        /\ thermal' = [thermal EXCEPT ![t] = th]
        /\ app' = [app EXCEPT
               !.temperature_history = PushCapped(@, th.last_temp, HISTORY_CAP),
               !.thermal_score = ThermalScoreOf(th),
               !.mic_score = MicMonitor_get_threat_score(t),
               !.fft_data = IF get_fft_results(t).bins # 0 THEN get_fft_results(t) ELSE @,
               !.kernel_score = KernelMonitor_get_threat_score(t),
               !.suspicious_processes =
                   IF suspicious # <<>>
                   THEN [j \in 1..Len(suspicious) |-> FormatProcess(suspicious[j])] ELSE @,
               !.new_usb_devices =
                   IF usb_devices # <<>>
                   THEN [j \in 1..Len(usb_devices) |-> FormatDevice(usb_devices[j])] ELSE @]
        /\ eng' = [eng EXCEPT ![t].pc = "history", ![t].now = now,
                              ![t].thermal_score_val = ThermalScoreOf(th),
                              ![t].mic_score_val = MicMonitor_get_threat_score(t),
                              ![t].kernel_score_val = KernelMonitor_get_threat_score(t)]
        /\ hist_log' = [hist_log EXCEPT !.temperature = Append(@, th.last_temp)]
        /\ UNCHANGED <<kernel, kworker, mic, mworker, scan, locks>>

\* coordinating thread: takes the guards of mic_power_history and time_history (and
\* keeps them), appends one sample to each and publishes the three-term mean
EngineHistory(t) ==
    /\ eng[t].pc = "history"
    /\ app.mic_history_guard = 0
    /\ app.time_points_guard = 0
    /\ app' = [app EXCEPT
           !.mic_history_guard = t,
           !.time_points_guard = t,
           !.mic_power_history =
               PushCapped(@, MicPowerSample(eng[t].mic_score_val, get_ultrasonic_power(t)), HISTORY_CAP),
           !.time_history = PushCapped(@, eng[t].now, HISTORY_CAP),
           !.combined_score =
               MeanScore(<<eng[t].mic_score_val, eng[t].thermal_score_val, eng[t].kernel_score_val>>)]
    /\ hist_log' = [hist_log EXCEPT
           !.mic_power = Append(@, MicPowerSample(eng[t].mic_score_val, get_ultrasonic_power(t))),
           !.time = Append(@, eng[t].now)]
    /\ eng' = [eng EXCEPT ![t].pc = "email"]
    /\ UNCHANGED <<thermal, kernel, kworker, mic, mworker, scan, locks>>

\* the mail gate `last_email_check.elapsed() > 60 s`
EmailDue(t) == eng[t].now - eng[t].last_email_check > EMAIL_GATE_MS

\* a mail cycle that takes the time of a fetch only when the fetch succeeds
EngineEmailRetrying(t, mail) ==
    /\ eng[t].pc = "email"
    /\ IF EmailDue(t)
       THEN \E res \in {fetch_emails(mail)} :
            \E scored_urls \in {scan_urls(extract_urls(res.v))} :
            \E max_score \in {MaxUrlScore(scored_urls)} :
                /\ eng' = [eng EXCEPT ![t].pc = "sleep",
                                      ![t].last_email_check = IF res.ok THEN eng[t].now ELSE @,
                                      ![t].mail_obtained = @ \/ res.ok]
                /\ IF res.ok
                   THEN app' = [app EXCEPT
                            !.urls = scored_urls,
                            !.email_score = max_score,
                            !.combined_score =
                                MeanScore(<<eng[t].mic_score_val, eng[t].thermal_score_val,
                                            eng[t].kernel_score_val, max_score>>)]
                   ELSE UNCHANGED app
       ELSE /\ eng' = [eng EXCEPT ![t].pc = "sleep"]
            /\ UNCHANGED app
    /\ UNCHANGED <<thermal, kernel, kworker, mic, mworker, scan, hist_log, locks>>

\* coordinating thread: the mail cycle; mail is what the IMAP server does
EngineEmail(t, mail) ==
    /\ eng[t].pc = "email"
    /\ IF EmailDue(t)
       THEN \E res \in {fetch_emails(mail)} :
            \E scored_urls \in {scan_urls(extract_urls(res.v))} :
            \E max_score \in {MaxUrlScore(scored_urls)} :
                /\ eng' = [eng EXCEPT ![t].pc = "sleep",
                                      ![t].last_email_check = eng[t].now,
                                      ![t].mail_obtained = @ \/ res.ok]
                /\ IF res.ok
                   THEN app' = [app EXCEPT
                            !.urls = scored_urls,
                            !.email_score = max_score,
                            !.combined_score =
                                MeanScore(<<eng[t].mic_score_val, eng[t].thermal_score_val,
                                            eng[t].kernel_score_val, max_score>>)]
                   ELSE UNCHANGED app
       ELSE /\ eng' = [eng EXCEPT ![t].pc = "sleep"]
            /\ UNCHANGED app
    /\ UNCHANGED <<thermal, kernel, kworker, mic, mworker, scan, hist_log, locks>>

\* coordinating thread: the sleep ends after d ms and the iteration ends, dropping
\* the two history guards
EngineSleep(t, d) ==
    /\ eng[t].pc = "sleep"
    /\ eng' = [eng EXCEPT ![t].pc = "check", ![t].now = @ + d]
    /\ app' = [app EXCEPT
           !.mic_history_guard = IF @ = t THEN 0 ELSE @,
           !.time_points_guard = IF @ = t THEN 0 ELSE @]
    /\ UNCHANGED <<thermal, kernel, kworker, mic, mworker, scan, hist_log, locks>>

\* an exit that stops the microphone monitor only
EngineStopMonitorsMicOnly(t) ==
    /\ eng[t].pc = "stop"
    /\ MicStop(t)
    /\ eng' = [eng EXCEPT ![t].pc = "done"]
    /\ UNCHANGED <<app, thermal, kernel, kworker, scan, hist_log, locks>>

\* coordinating thread, after the loop: `mic_monitor.stop_monitoring()` and
\* `kernel_monitor.stop_monitoring()`; the thread ends
EngineStopMonitors(t) ==
    /\ eng[t].pc = "stop"
    /\ MicStop(t)
    /\ KernelStop(t)
    /\ eng' = [eng EXCEPT ![t].pc = "done"]
    /\ UNCHANGED <<app, thermal, scan, hist_log, locks>>

\* the monitors' public methods, called by a client that owns the monitor
KernelMonitor_start_monitoring(k) ==
    KernelStart(k) /\ UNCHANGED <<app, eng, thermal, mic, mworker, scan, hist_log, locks>>

KernelMonitor_stop_monitoring(k) ==
    KernelStop(k) /\ UNCHANGED <<app, eng, thermal, mic, mworker, scan, hist_log, locks>>

MicMonitor_start_monitoring(k, audio, rate) ==
    MicStart(k, audio, rate) /\ UNCHANGED <<app, eng, thermal, kernel, kworker, scan, hist_log, locks>>

MicMonitor_stop_monitoring(k) ==
    MicStop(k) /\ UNCHANGED <<app, eng, thermal, kernel, kworker, scan, hist_log, locks>>

\* --------------------------------------------------------- main.rs
\* run_full_scan before its "Get results" part
Scan_none ==
    [pc |-> "none", mic_score |-> 0, thermal_score |-> 0, kernel_score |-> 0,
     email_score |-> 0, email_obtained |-> FALSE, combined_score |-> 0]

\* run_full_scan: "Get results", the three get_threat_score calls after the
\* monitoring period
ScanResults(mic_score, thermal_score, kernel_score) ==
    /\ scan.pc = "none"
    /\ scan' = [scan EXCEPT !.pc = "email", !.mic_score = mic_score,
                            !.thermal_score = thermal_score,
                            !.kernel_score = kernel_score]
    /\ UNCHANGED <<app, eng, thermal, kernel, kworker, mic, mworker, hist_log, locks>>

\* run_full_scan: the email scan; creds says whether username and password were given
ScanEmail(creds, mail) ==
    LET res == fetch_emails(mail)
        scored_urls == scan_urls(extract_urls(res.v))
    IN  /\ scan.pc = "email"
        /\ scan' = [scan EXCEPT
               !.pc = "combine",
               !.email_score = IF creds /\ res.ok THEN MaxUrlScore(scored_urls) ELSE 0,
               !.email_obtained = creds /\ res.ok]
        /\ UNCHANGED <<app, eng, thermal, kernel, kworker, mic, mworker, hist_log, locks>>

\* the combined score of run_full_scan, in u16
ScanCombined(m, th, k, e) == ((m + th + k + e) % 65536) \div 4

\* run_full_scan: `let combined_score = (...) / 4`
ScanCombine ==
    /\ scan.pc = "combine"
    /\ scan' = [scan EXCEPT
           !.pc = "done",
           !.combined_score = ScanCombined(scan.mic_score, scan.thermal_score,
                                           scan.kernel_score, scan.email_score)]
    /\ UNCHANGED <<app, eng, thermal, kernel, kworker, mic, mworker, hist_log, locks>>

\* ------------------------------------------------------------ locks
\* The sequence of mutexes a thread or a method locks.  A step is
\*   <<"acquire", k, field>>  `let guard = field.lock().unwrap()`, guard kept
\*   <<"touch", k, field>>    a lock taken and released within one statement
\*   <<"last", k, field>>     a touch after which the scope ends and every guard
\*                            of the thread is dropped
\* where k is the coordinating thread that owns the monitor, 0 for
\* MonitoringData.  A statement that locks while the thread holds nothing, on a
\* mutex that no thread keeps beyond a statement, cannot wait nor be waited for
\* and is left out.

\* kernel_monitor.rs: the monitoring thread in an iteration with both cycles due,
\* get_threat_score and get_suspicious_processes
KernelMonitor_locks(role, k) ==
    CASE role = "loop" ->
             << <<"acquire", k, "processes">>, <<"last", k, "suspicious_processes">>,
                <<"acquire", k, "usb_devices">>, <<"last", k, "new_usb_devices">> >>
      [] role = "get_threat_score" ->
             << <<"acquire", k, "suspicious_processes">>, <<"last", k, "new_usb_devices">> >>
      [] role = "get_suspicious_processes" -> << <<"touch", k, "suspicious_processes">> >>

\* mic_monitor.rs: the FFT thread in an iteration with a latching window, the
\* capture callback, the simulation thread in a tick with i % 5 = 0, and
\* get_threat_score
MicMonitor_locks(role, k) ==
    CASE role = "fft" ->
             << <<"acquire", k, "fft_buffer">>, <<"touch", k, "fft_results">>,
                <<"touch", k, "ultrasonic_power">>, <<"touch", k, "high_freq_detected">>,
                <<"last", k, "frequency_power">> >>
      [] role = "callback" -> << <<"touch", k, "fft_buffer">> >>
      [] role = "sim" -> << <<"touch", k, "high_freq_detected">> >>
      [] role = "get_threat_score" ->
             << <<"acquire", k, "high_freq_detected">>, <<"last", k, "frequency_power">> >>

\* a GUI thread whose render_classic_view keeps the guard of time_history while
\* it locks mic_power_history
ThreatSentryApp_locks_keeping_guard(role, t) ==
    CASE role = "loop" ->
             MicMonitor_locks("get_threat_score", t)
             \o KernelMonitor_locks("get_threat_score", t)
             \o KernelMonitor_locks("get_suspicious_processes", t)
             \o << <<"acquire", 0, "mic_power_history">>, <<"acquire", 0, "time_history">>,
                   <<"touch", 0, "combined_score">>, <<"touch", 0, "urls">>,
                   <<"touch", 0, "email_score">>, <<"last", 0, "combined_score">> >>
      [] role = "update" ->
             << <<"acquire", 0, "time_history">>, <<"last", 0, "mic_power_history">> >>

\* gui.rs: the coordinating thread in an iteration with a successful mail cycle,
\* and the GUI thread in one call of update: update_3d_system_activity,
\* generate_threat_map_data, render_classic_view and render_threat_analysis
ThreatSentryApp_locks(role, t) ==
    CASE role = "loop" ->
             MicMonitor_locks("get_threat_score", t)
             \o KernelMonitor_locks("get_threat_score", t)
             \o KernelMonitor_locks("get_suspicious_processes", t)
             \o << <<"acquire", 0, "mic_power_history">>, <<"acquire", 0, "time_history">>,
                   <<"touch", 0, "combined_score">>, <<"touch", 0, "urls">>,
                   <<"touch", 0, "email_score">>, <<"last", 0, "combined_score">> >>
      [] role = "update" ->
             << <<"acquire", 0, "system_activity_3d">>, <<"touch", 0, "mic_score">>,
                <<"touch", 0, "thermal_score">>, <<"last", 0, "kernel_score">>,
                <<"acquire", 0, "threat_origins">>, <<"touch", 0, "mic_score">>,
                <<"touch", 0, "thermal_score">>, <<"touch", 0, "kernel_score">>,
                <<"touch", 0, "email_score">>, <<"last", 0, "threat_details">>,
                <<"touch", 0, "time_history">>, <<"touch", 0, "mic_power_history">>,
                <<"touch", 0, "threat_origins">>, <<"acquire", 0, "selected_threat">>,
                <<"last", 0, "threat_details">> >>

\* the threads that lock: every coordinating thread, the GUI thread, and the
\* threads of the monitors of coordinating thread 1 (the monitors of the other
\* coordinating threads are private to them and their threads do the same)
LockThreads ==
    { <<"loop", t>> : t \in Threads }
    \cup { <<"update", 0>>, <<"kernel", 1>>, <<"fft", 1>>, <<"callback", 1>>, <<"sim", 1>> }

\* the sequence of thread th
LockProgram(th) ==
    CASE th[1] \in {"loop", "update"} -> ThreatSentryApp_locks(th[1], th[2])
      [] th[1] = "kernel" -> KernelMonitor_locks("loop", th[2])
      [] OTHER -> MicMonitor_locks(th[1], th[2])

\* Mutex::lock by thread th at its position: it waits while the mutex is held
\* (by any thread, th included), then goes on
LockStep(th) ==
    LET prog == LockProgram(th)
        step == prog[locks.pc[th]]
        mutex == <<step[2], step[3]>>
    IN  /\ \A h \in locks.held : h[1] # mutex
        /\ locks' = [held |-> CASE step[1] = "acquire" -> locks.held \cup {<<mutex, th>>}
                                [] step[1] = "touch" -> locks.held
                                [] step[1] = "last" -> { h \in locks.held : h[2] # th },
                     pc |-> [locks.pc EXCEPT
                                ![th] = IF @ = Len(prog) THEN 1 ELSE @ + 1]]
        /\ UNCHANGED <<app, eng, thermal, kernel, kworker, mic, mworker, scan, hist_log>>

\* ------------------------------------------------------ environment
\* telemetry of one check_temperature call
Telemetry(power, cpu1, rnd1, cpu2, rnd2) ==
    [power |-> power, cpu1 |-> cpu1, rnd1 |-> rnd1, cpu2 |-> cpu2, rnd2 |-> rnd2]

NoBattery == [ok |-> FALSE, ac |-> 1, battery |-> 100]
Probe(v) == [ok |-> TRUE, v |-> v]
ProbeFailed == [ok |-> FALSE, v |-> 0]

TelCool == Telemetry(NoBattery, Probe(25), 0, Probe(25), 0)
TelHot == Telemetry(NoBattery, Probe(95), 0, Probe(95), 0)
TelBattery == Telemetry([ok |-> TRUE, ac |-> 0, battery |-> 20], Probe(25), 0, Probe(25), 0)
TelFailed == Telemetry(NoBattery, ProbeFailed, 50, ProbeFailed, 99)

\* mail server behaviours
MailConnectFail == [kind |-> "connect_fail", bodies |-> <<>>]
MailSessionError == [kind |-> "session_error", bodies |-> <<>>]
MailPlain == [kind |-> "ok", bodies |-> << << <<"s","e","e">>, <<"h","t","t","p",":","/","/","s","h","o","p",".","e","x","a","m","p","l","e","/","o","f","f","e","r">> >> >>]
MailNoUrl == [kind |-> "ok", bodies |-> << << <<"h","e","l","l","o">> >> >>]

\* process listings
ProcBenign == ProcessInfo(<<"c","h","r","o","m","e">>, 1, 10, 100)
ProcMiner == ProcessInfo(<<"X","M","R","i","g","-","M","i","n","e","r">>, 2, 5, 50)
Listed(v) == [ok |-> TRUE, v |-> v]
ListingFailed == [ok |-> FALSE, v |-> <<>>]

\* USB listings
UsbDevice(id, description) == [device_id |-> id, description |-> description]
DevHub == UsbDevice("USB\\ROOT_HUB", "hub")
DevStick == UsbDevice("USB\\VID_1234", "stick")

\* ------------------------------------------------ specifications
Init ==
    /\ app = MonitoringData_new
    /\ eng = [t \in Threads |-> EngineThread_none]
    /\ thermal = [t \in Threads |-> ThermalMonitor_new]
    /\ kernel = [t \in Threads |-> KernelMonitor_new]
    /\ kworker = [t \in Threads |-> [w \in Workers |-> KernelWorker_none]]
    /\ mic = [t \in Threads |-> MicMonitor_new]
    /\ mworker = [t \in Threads |-> [w \in Workers |-> MicWorker_none]]
    /\ scan = Scan_none
    /\ hist_log = [temperature |-> <<>>, mic_power |-> <<>>, time |-> <<>>]
    /\ locks = [held |-> {}, pc |-> [th \in LockThreads |-> 1]]

\* the steps of coordinating thread t in environment env
EngineSteps(t, env) ==
    \/ \E audio \in env.audio, rate \in env.rates : EngineStartMonitors(t, audio, rate)
    \/ (app.is_monitoring => eng[t].cycles < env.cycles) /\ EngineLoopCheck(t)
    \/ \E tel \in env.tel, d \in env.probe_ms : EngineSense(t, tel, d)
    \/ EngineHistory(t)
    \/ \E mail \in env.mail : EngineEmail(t, mail)
    \/ \E d \in env.sleeps : EngineSleep(t, d)
    \/ EngineStopMonitors(t)

\* the steps of the monitoring thread of start call w of KernelMonitor k
KernelWorkerSteps(k, w, env) ==
    \/ KernelLoopCheck(k, w)
    \/ \E pdue \in env.due, pres \in env.proc, udue \in env.due, ures \in env.usb :
           KernelIteration(k, w, pdue, pres, udue, ures)

\* the steps of the FFT thread and the stream of start call w of MicMonitor k
FftSteps(k, w, env) ==
    \/ mworker[k][w].blocks < env.blocks
         /\ \E sig \in env.signals, n \in env.block_sizes : MicCallback(k, w, sig, n)
    \/ FftLoopCheck(k, w)
    \/ \E sp \in env.spectra : FftWindow(k, w, sp)
    \/ FftStorePower(k, w)
    \/ FftWake(k, w)

\* the steps of the simulation thread of start call w of MicMonitor k
SimSteps(k, w, env) ==
    \/ (mic[k].is_monitoring => mworker[k][w].i < env.ticks) /\ SimLoopCheck(k, w)
    \/ SimTick(k, w)
    \/ SimStorePower(k, w)

\* the environment of the lifecycle checks: a host without audio device, one
\* process and one USB listing, a mail server that fails or delivers
EnvLife ==
    [cycles |-> MaxCycles, tel |-> {TelCool}, probe_ms |-> {1}, sleeps |-> {SLEEP_MS},
     mail |-> {MailSessionError, MailPlain}, audio |-> {"no_device"},
     rates |-> {44100}, ticks |-> MaxTicks,
     due |-> {TRUE}, proc |-> {Listed(<<ProcMiner>>)}, usb |-> {Listed(<<DevStick>>)}]

\* the engine driven from the GUI: any sequence of start and stop
Next ==
    \/ StartMonitoring
    \/ StopMonitoring
    \/ \E t \in Threads : EngineSteps(t, EnvLife)
    \/ \E k \in Threads, w \in Workers : KernelWorkerSteps(k, w, EnvLife)

\* the simulation threads the monitors spawn are not scheduled here; SpecSession
\* and SpecMic run them
Spec == Init /\ [][Next]_vars

\* the environment of a session: a host without audio device whose temperature,
\* processes, USB devices and mail server vary
EnvSession ==
    [cycles |-> MaxSessionCycles, tel |-> {TelCool}, probe_ms |-> {1},
     sleeps |-> {SLEEP_MS, EMAIL_GATE_MS},
     mail |-> {MailConnectFail, MailSessionError, MailPlain, MailNoUrl},
     audio |-> {"no_device"}, rates |-> {44100}, ticks |-> MaxTicks,
     due |-> {TRUE}, proc |-> {Listed(<<ProcMiner>>)},
     usb |-> {Listed(<<DevStick>>)}]

\* one session of the engine: start is pressed once, stop at any time
SessionNext ==
    \/ (\A t \in Threads : eng[t].pc = "none") /\ StartMonitoring
    \/ StopMonitoring
    \/ \E t \in Threads : EngineSteps(t, EnvSession)
    \/ \E k \in Threads, w \in Workers : KernelWorkerSteps(k, w, EnvSession)
    \/ \E k \in Threads, w \in Workers : SimSteps(k, w, EnvSession)

SpecSession == Init /\ [][SessionNext]_vars

\* the environment of the cancellation check: a host whose audio device is
\* absent or delivers one-window blocks of a tone
EnvFair ==
    [cycles |-> MaxCycles, tel |-> {TelCool}, probe_ms |-> {1}, sleeps |-> {SLEEP_MS},
     mail |-> {MailSessionError, MailPlain}, audio |-> {"no_device", "ok"},
     rates |-> {44100}, ticks |-> MaxTicks, blocks |-> MaxBlocks,
     signals |-> {"tone"}, block_sizes |-> {WINDOW_SIZE}, spectra |-> {PeakAt(0, 300)},
     due |-> {TRUE}, proc |-> {Listed(<<ProcMiner>>)}, usb |-> {Listed(<<DevStick>>)}]

\* one session with every thread it spawns
FairNext ==
    \/ (\A t \in Threads : eng[t].pc = "none") /\ StartMonitoring
    \/ StopMonitoring
    \/ \E t \in Threads : EngineSteps(t, EnvFair)
    \/ \E k \in Threads, w \in Workers : KernelWorkerSteps(k, w, EnvFair)
    \/ \E k \in Threads, w \in Workers : FftSteps(k, w, EnvFair)
    \/ \E k \in Threads, w \in Workers : SimSteps(k, w, EnvFair)

\* the session under a scheduler that lets every spawned thread run
FairSession ==
    /\ Init /\ [][FairNext]_vars
    /\ \A t \in Threads : WF_vars(EngineSteps(t, EnvFair))
    /\ \A k \in Threads, w \in Workers : WF_vars(KernelWorkerSteps(k, w, EnvFair))
    /\ \A k \in Threads, w \in Workers : WF_vars(FftSteps(k, w, EnvFair))
    /\ \A k \in Threads, w \in Workers : WF_vars(SimSteps(k, w, EnvFair))

\* the environment of a KernelMonitor driven by a client: listings that flag a
\* process or none, that fail, and USB listings with one or two devices
EnvKernel ==
    [due |-> BOOLEAN,
     proc |-> {Listed(<<ProcMiner>>), Listed(<<ProcBenign>>), ListingFailed},
     usb |-> {Listed(<<DevStick>>), Listed(<<DevHub, DevStick>>), ListingFailed}]

\* a client that owns KernelMonitor 1 and calls start and stop in any order
KernelNext ==
    \/ KernelMonitor_start_monitoring(1)
    \/ KernelMonitor_stop_monitoring(1)
    \/ \E w \in Workers : KernelWorkerSteps(1, w, EnvKernel)

SpecKernel == Init /\ [][KernelNext]_vars

\* a client that owns KernelMonitor 1 and calls start and stop in any order, on
\* a host with a miner whose USB listing shows the stick, the hub and the stick,
\* or fails; the process cycle, the USB cycle or both are due in an iteration
UsbNext ==
    \/ KernelMonitor_start_monitoring(1)
    \/ KernelMonitor_stop_monitoring(1)
    \/ \E w \in Workers : KernelLoopCheck(1, w)
    \/ \E w \in Workers, pdue \in BOOLEAN, udue \in BOOLEAN,
          ures \in {Listed(<<DevStick>>), Listed(<<DevHub, DevStick>>), ListingFailed} :
           /\ pdue \/ udue
           /\ KernelIteration(1, w, pdue, Listed(<<ProcMiner>>), udue, ures)

SpecUsb == Init /\ [][UsbNext]_vars

\* one run of run_full_scan from "Get results" on.  The three monitors report
\* what they can after the monitoring period: the latch unset, set before its
\* power is stored, or set; a thermal monitor after one check of each telemetry
\* or after a spike; a kernel monitor with or without a flagged process (an idle
\* miner, or svchost at 95 % CPU with 600 MB) and a new device.  The mail server
\* fails, has no message, or has one with or without URL
ScanNext ==
    \/ \E m \in { MicScoreOf(latched, power) : latched \in BOOLEAN, power \in {0, 300} },
          th \in { ThermalScoreOf(check_temperature(ThermalMonitor_new, tel, 1000)) :
                       tel \in {TelCool, TelHot, TelBattery, TelFailed} }
                 \cup { ThermalScoreOf(check_temperature(
                            check_temperature(ThermalMonitor_new, TelCool, 1000), TelHot, 2000)) },
          k \in { KernelScoreOf(suspicious, newUsb) :
                      suspicious \in {<<>>, <<ProcMiner>>,
                                      <<ProcessInfo(<<"s","v","c","h","o","s","t">>, 3, 95, 600)>>},
                      newUsb \in {<<>>, <<DevStick>>} } :
           ScanResults(m, th, k)
    \/ \E creds \in BOOLEAN,
          mail \in {MailConnectFail, MailSessionError, [kind |-> "ok", bodies |-> <<>>],
                    MailPlain, MailNoUrl} :
           ScanEmail(creds, mail)
    \/ ScanCombine

SpecScan == Init /\ [][ScanNext]_vars

\* the environment of the history check: a host without audio device that is
\* cool, or hot in the first iterations, and a mail server that delivers
EnvHistory ==
    [cycles |-> MaxAppends, tel |-> {TelCool, TelHot}, probe_ms |-> {1},
     sleeps |-> {SLEEP_MS}, mail |-> {MailPlain}, audio |-> {"no_device"},
     rates |-> {44100}, ticks |-> MaxTicks]

\* one coordinating loop that runs on without being stopped.  The temperature
\* varies and the simulated audio loop of its MicMonitor is scheduled during
\* the first MaxVaried iterations
HistoryNext ==
    \/ (\A t \in Threads : eng[t].pc = "none") /\ StartMonitoring
    \/ \E audio \in EnvHistory.audio, rate \in EnvHistory.rates :
           EngineStartMonitors(1, audio, rate)
    \/ eng[1].cycles < EnvHistory.cycles /\ EngineLoopCheck(1)
    \/ \E tel \in (IF eng[1].cycles <= MaxVaried THEN EnvHistory.tel ELSE {TelCool}),
          d \in EnvHistory.probe_ms : EngineSense(1, tel, d)
    \/ EngineHistory(1)
    \/ \E mail \in EnvHistory.mail : EngineEmail(1, mail)
    \/ \E d \in EnvHistory.sleeps : EngineSleep(1, d)
    \/ eng[1].cycles <= MaxVaried /\ SimSteps(1, 1, EnvHistory)

SpecHistory == Init /\ [][HistoryNext]_vars

\* the environment of a MicMonitor driven by a client: no device, or a device
\* that delivers windows of silence or of a tone in the ultrasonic band
EnvMic ==
    [audio |-> {"no_device", "ok"}, rates |-> {44100},
     signals |-> {"zero", "tone"}, block_sizes |-> {WINDOW_SIZE},
     spectra |-> {PeakAt(0, 300)}, blocks |-> MaxBlocks, ticks |-> MaxTicks]

\* a client that owns MicMonitor 1 and calls start and stop in any order
MicNext ==
    \/ \E audio \in EnvMic.audio, rate \in EnvMic.rates :
           MicMonitor_start_monitoring(1, audio, rate)
    \/ MicMonitor_stop_monitoring(1)
    \/ \E w \in Workers : FftSteps(1, w, EnvMic)
    \/ \E w \in Workers : SimSteps(1, w, EnvMic)

SpecMic == Init /\ [][MicNext]_vars

\* the environment of a MicMonitor whose host gains or changes its input device
\* between two starts: no device, a device at 44.1 kHz or one at 16 kHz
EnvCapture ==
    [audio |-> {"no_device", "ok"}, rates |-> {44100, 16000},
     signals |-> {"zero", "tone"}, block_sizes |-> {WINDOW_SIZE},
     spectra |-> {PeakAt(0, 300)}, blocks |-> MaxBlocks, ticks |-> MaxTicks]

\* a client that owns MicMonitor 1 and calls start and stop in any order
CaptureNext ==
    \/ \E audio \in EnvCapture.audio, rate \in EnvCapture.rates :
           MicMonitor_start_monitoring(1, audio, rate)
    \/ MicMonitor_stop_monitoring(1)
    \/ \E w \in Workers : FftSteps(1, w, EnvCapture)
    \/ \E w \in Workers : SimSteps(1, w, EnvCapture)

SpecCapture == Init /\ [][CaptureNext]_vars

\* the environment of a ThermalMonitor driven by a client: every kind of
\* telemetry and a CPU at 75 % (55.0 degrees, 10.0 above TelCool), one second or
\* ten seconds after the previous check
EnvThermal ==
    [tel |-> {TelCool, TelHot, TelBattery, TelFailed,
              Telemetry(NoBattery, Probe(75), 0, Probe(75), 0)},
     gaps |-> {1000, SPIKE_GATE_MS}]

\* a client that owns ThermalMonitor 1 and checks the temperature in a loop
ThermalNext ==
    /\ Len(thermal[1].temperature_history) < MaxChecks
    /\ \E tel \in EnvThermal.tel, d \in EnvThermal.gaps :
           ThermalMonitor_check_temperature(1, tel, d)

SpecThermal == Init /\ [][ThermalNext]_vars

\* process listings of one line: names with no, one and two keywords of the
\* table, CPU and memory readings in every band and at the band limits 90 % and
\* 1000 MB
EnvProcess ==
    { Listed(<<ProcessInfo(name, 7, cpu, mb)>>) :
          name \in { <<"c","h","r","o","m","e">>,
                     <<"x","m","r","i","g","-","m","i","n","e","r">>,
                     <<"E","t","h","M","i","n","e","r">>,
                     <<"T","r","o","j","a","n",".","e","x","e">> },
          cpu \in {0, 60, 80, 90, 95},
          mb \in {0, 300, 600, 1000, 2000} }

\* a KernelMonitor started once whose loop lists the processes in each iteration
ProcessNext ==
    \/ kernel[1].spawned = 0 /\ KernelMonitor_start_monitoring(1)
    \/ KernelLoopCheck(1, 1)
    \/ \E pres \in EnvProcess : KernelIteration(1, 1, TRUE, pres, FALSE, ListingFailed)

SpecProcess == Init /\ [][ProcessNext]_vars

\* the environment of one analyzer: no device, a device whose format is refused,
\* or a device at 44.1 kHz or 16 kHz that delivers half and full windows of
\* silence or of a tone, whose spectrum is flat at 0.3 or has its peak at the
\* bin of 20 kHz at 44.1 kHz
EnvAnalyzer ==
    [audio |-> {"no_device", "bad_format", "ok"}, rates |-> {44100, 16000},
     signals |-> {"zero", "tone"}, block_sizes |-> {WINDOW_SIZE \div 2, WINDOW_SIZE},
     spectra |-> {PeakAt(0, 300), PeakAt(FreqIdx(20000, 44100), 100)}, blocks |-> MaxAnalyzerBlocks, ticks |-> MaxTicks]

\* a client that starts MicMonitor 1 once and may stop it
AnalyzerNext ==
    \/ /\ mic[1].spawned = 0
       /\ \E audio \in EnvAnalyzer.audio, rate \in EnvAnalyzer.rates :
              MicMonitor_start_monitoring(1, audio, rate)
    \/ MicMonitor_stop_monitoring(1)
    \/ FftSteps(1, 1, EnvAnalyzer)
    \/ SimSteps(1, 1, EnvAnalyzer)

SpecAnalyzer == Init /\ [][AnalyzerNext]_vars

\* the engine driven from the GUI with its coordinating threads alone: the loops
\* the monitors spawn are not scheduled
StartNext ==
    \/ StartMonitoring
    \/ StopMonitoring
    \/ \E t \in Threads : EngineSteps(t, EnvLife)

SpecStart == Init /\ [][StartNext]_vars

\* the engine driven from the GUI on a host without audio device that is cool or
\* hot: start is pressed again only after the coordinating thread of the
\* session before has ended; the coordinating threads and the simulated audio
\* loops of their monitors
RestartNext ==
    LET env == [cycles |-> MaxSessionCycles, tel |-> {TelCool, TelHot}, probe_ms |-> {1},
                sleeps |-> {SLEEP_MS}, mail |-> {MailSessionError},
                audio |-> {"no_device"}, rates |-> {44100}, ticks |-> MaxTicks]
    IN  \/ (\A t \in Threads : eng[t].pc \in {"none", "done"}) /\ StartMonitoring
        \/ StopMonitoring
        \/ \E t \in Threads : EngineSteps(t, env)
        \/ \E k \in Threads : SimSteps(k, 1, env)

SpecRestart == Init /\ [][RestartNext]_vars

\* every thread that locks, running its sequence again and again
SpecLocks == Init /\ [][\E th \in LockThreads : LockStep(th)]_vars

\* no operation has touched the named parts of the state yet
Untouched(parts) ==
    /\ "thermal" \in parts => thermal = [t \in Threads |-> ThermalMonitor_new]
    /\ "kernel" \in parts =>
           /\ kernel = [t \in Threads |-> KernelMonitor_new]
           /\ kworker = [t \in Threads |-> [w \in Workers |-> KernelWorker_none]]
    /\ "mic" \in parts =>
           /\ mic = [t \in Threads |-> MicMonitor_new]
           /\ mworker = [t \in Threads |-> [w \in Workers |-> MicWorker_none]]
    /\ "engine" \in parts =>
           app = MonitoringData_new /\ eng = [t \in Threads |-> EngineThread_none]
    /\ "scan" \in parts => scan = Scan_none

\* one run of the program in one of its modes: the thermal monitor, the kernel
\* monitor or the microphone monitor alone, the full scan, or the engine
ScoresNext ==
    \/ Untouched({"kernel", "mic", "engine", "scan"}) /\ ThermalNext
    \/ Untouched({"thermal", "mic", "engine", "scan"}) /\ ProcessNext
    \/ Untouched({"thermal", "kernel", "engine", "scan"}) /\ AnalyzerNext
    \/ Untouched({"thermal", "kernel", "mic", "engine"}) /\ ScanNext
    \/ /\ Untouched({"scan"})
       /\ ~Untouched({"engine"}) \/ Untouched({"thermal", "kernel", "mic"})
       /\ SessionNext

SpecScores == Init /\ [][ScoresNext]_vars

\* ------------------------------------------------------- properties
\* coordinating thread t is inside an iteration it entered on a set flag
EngineLoopRunning(t) == eng[t].pc \in {"sense", "history", "email", "sleep"}

\* the monitoring threads of KernelMonitor k that are inside an iteration
KernelLoopsRunning(k) == { w \in Workers : kworker[k][w].pc = "body" }

\* the analysis and simulation threads of MicMonitor k that are inside an iteration
MicLoopsRunning(k) ==
    { <<w, "fft">> : w \in { x \in Workers : mworker[k][x].fft_pc \in {"window", "power", "sleep"} } }
    \cup { <<w, "sim">> : w \in { x \in Workers : mworker[k][x].sim_pc \in {"tick", "power"} } }

\* C1: a stop followed at once by a start never leaves two loops of the same
\* sensor running: at most one coordinating loop iterates, and per monitor at
\* most one kernel loop and at most one microphone loop
AtMostOneLoopPerSensor ==
    /\ Cardinality({ t \in Threads : EngineLoopRunning(t) }) <= 1
    /\ \A k \in Threads : Cardinality(KernelLoopsRunning(k)) <= 1
    /\ \A k \in Threads : Cardinality(MicLoopsRunning(k)) <= 1

\* C3: at the end of every cycle of the coordinating loop combined_score is the
\* truncated mean of the three sensor scores while no fetch of the loop has
\* returned mail, and of the four scores in every cycle after one has
CombinedIsMeanOfKnownScores ==
    \A t \in Threads :
        eng[t].pc = "sleep" =>
            app.combined_score =
                IF eng[t].mail_obtained
                THEN MeanScore(<<app.mic_score, app.thermal_score,
                                 app.kernel_score, app.email_score>>)
                ELSE MeanScore(<<app.mic_score, app.thermal_score, app.kernel_score>>)

\* the servers whose fetch is a failure of the mail-reading collaborator
FailingMail == {MailConnectFail, MailSessionError}

\* C5: a due mail cycle whose fetch fails leaves the published URL list, the mail
\* score and the combined score as they were
MailFailureLeavesPublished ==
    [][\A t \in Threads, mail \in FailingMail :
           (EmailDue(t) /\ EngineEmail(t, mail)) =>
               /\ app'.urls = app.urls
               /\ app'.email_score = app.email_score
               /\ app'.combined_score = app.combined_score]_vars

\* every loop the session spawned has left its `while`, and the monitors' flags
\* are clear
AllLoopsExited ==
    \A t \in Threads :
        /\ eng[t].pc \in {"none", "done"}
        /\ ~mic[t].is_monitoring /\ ~kernel[t].is_monitoring
        /\ \A w \in Workers :
              /\ kworker[t][w].pc \in {"none", "done"}
              /\ mworker[t][w].fft_pc \in {"none", "done"}
              /\ mworker[t][w].sim_pc \in {"none", "done"}

\* a loop that has observed its flag false runs no further iteration, and the
\* monitors' flags are cleared by the coordinating thread on its way out
NoIterationAfterExit ==
    \A t \in Threads :
        /\ eng[t].pc \in {"stop", "done"} => eng'[t].pc \in {"stop", "done"}
        /\ (mic[t].is_monitoring /\ ~mic'[t].is_monitoring) => eng[t].pc = "stop"
        /\ (kernel[t].is_monitoring /\ ~kernel'[t].is_monitoring) => eng[t].pc = "stop"
        /\ \A w \in Workers :
              /\ kworker[t][w].pc = "done" => kworker'[t][w].pc = "done"
              /\ mworker[t][w].fft_pc = "done" => mworker'[t][w].fft_pc = "done"
              /\ mworker[t][w].sim_pc = "done" => mworker'[t][w].sim_pc = "done"

\* C8: once stop_monitoring has cleared the engine's flag, fair scheduling brings
\* the coordinating loop, the mic loops and the kernel loop to their exits with
\* both monitor flags cleared, and no exited loop iterates again
CooperativeCancellation ==
    /\ (~app.is_monitoring) ~> AllLoopsExited
    /\ [][NoIterationAfterExit]_vars

\* C8 witness: a session that iterated, was stopped and has wound down entirely
SessionWoundDown ==
    /\ eng[1].pc = "done" /\ eng[1].cycles >= 1
    /\ AllLoopsExited
    /\ kworker[1][1].pc = "done"
    /\ mworker[1][1].fft_pc = "done" \/ mworker[1][1].sim_pc = "done"

\* C2: a start_monitoring call on a monitor whose is_monitoring flag is already
\* true spawns no further worker loop
StartIsIdempotent ==
    [][\A k \in Threads :
           /\ kernel[k].is_monitoring => kernel'[k].spawned = kernel[k].spawned
           /\ mic[k].is_monitoring => mic'[k].spawned = mic[k].spawned]_vars

\* C9: an iteration whose process listing is due and succeeds leaves
\* suspicious_processes equal to the processes that listing flags
SuspiciousListReplaced ==
    [][\A k \in Threads, w \in Workers, pres \in EnvKernel.proc,
          udue \in EnvKernel.due, ures \in EnvKernel.usb :
           (pres.ok /\ KernelIteration(k, w, TRUE, pres, udue, ures)) =>
               kernel'[k].suspicious_processes = SuspiciousOf(pres.v)]_vars

\* C10: no device id occurs twice in new_usb_devices
EachDeviceReportedOnce ==
    \A k \in Threads :
        \A i, j \in 1..Len(kernel[k].new_usb_devices) :
            i # j => kernel[k].new_usb_devices[i].device_id
                         # kernel[k].new_usb_devices[j].device_id

\* C4: the combined score of a finished full scan is the truncated mean over the
\* sensors that reported: three without a mail score, four with one
ScanDividesByReporting ==
    scan.pc = "done" =>
        scan.combined_score =
            IF scan.email_obtained
            THEN (scan.mic_score + scan.thermal_score + scan.kernel_score
                  + scan.email_score) \div 4
            ELSE (scan.mic_score + scan.thermal_score + scan.kernel_score) \div 3

\* the last n values of a sequence, in order
LastN(s, n) == SubSeq(s, Max(1, Len(s) - n + 1), Len(s))

\* C6: each engine history holds at most HISTORY_CAP values, and they are the
\* last HISTORY_CAP values appended to it, in append order
HistoriesKeepLastHundred ==
    /\ Len(app.temperature_history) <= HISTORY_CAP
    /\ Len(app.mic_power_history) <= HISTORY_CAP
    /\ Len(app.time_history) <= HISTORY_CAP
    /\ app.temperature_history = LastN(hist_log.temperature, HISTORY_CAP)
    /\ app.mic_power_history = LastN(hist_log.mic_power, HISTORY_CAP)
    /\ app.time_history = LastN(hist_log.time, HISTORY_CAP)

\* C6 witness: more than HISTORY_CAP values were appended to each history, the
\* oldest were evicted, and the evicted temperatures differ from the kept ones
HistoriesOverflowed ==
    /\ Len(hist_log.temperature) > HISTORY_CAP
    /\ Len(hist_log.mic_power) > HISTORY_CAP
    /\ Len(hist_log.time) > HISTORY_CAP
    /\ Len(app.time_history) = HISTORY_CAP
    /\ app.time_history[1] # hist_log.time[1]
    /\ hist_log.temperature[1] # app.temperature_history[1]

\* C7: no step clears high_freq_detected, so a non-zero get_threat_score never
\* returns to 0, and the stored power changes only under the latch
LatchIsSticky ==
    [][\A k \in Threads :
           /\ mic[k].high_freq_detected => mic'[k].high_freq_detected
           /\ MicMonitor_get_threat_score(k) > 0 =>
                  MicScoreOf(mic'[k].high_freq_detected, mic'[k].frequency_power) > 0
           /\ mic'[k].frequency_power # mic[k].frequency_power =>
                  mic'[k].high_freq_detected]_vars

\* C7 witness: the latch is set on a monitor that was started twice and is stopped
LatchedAcrossRestart ==
    /\ mic[1].high_freq_detected
    /\ MicMonitor_get_threat_score(1) > 0
    /\ mic[1].spawned = 2
    /\ ~mic[1].is_monitoring

\* C11: while spike_detected is set get_threat_score returns 80, whatever the
\* temperature and CPU histories hold
SpikeScoresEighty ==
    \A k \in Threads :
        thermal[k].spike_detected => ThermalMonitor_get_threat_score(k) = 80

\* C11 witness: a spike was latched, and a later check has added readings
SpikeLatchedWithHistory ==
    /\ thermal[1].spike_detected
    /\ Len(thermal[1].temperature_history) = 3
    /\ thermal[1].cpu_usage_history[3] > 80

XMRIG_MINER == <<"x","m","r","i","g","-","m","i","n","e","r">>

\* C12: the score of every listed process lies in 0..100 and is at least the
\* floor of every keyword its name contains; "xmrig-miner" scores at least 70
ProcessScoreRespectsFloors ==
    \A k \in Threads :
        \A i \in 1..Len(kernel[k].processes) :
            LET p == kernel[k].processes[i]
            IN  /\ p.suspicious_score \in 0..100
                /\ \A j \in 1..Len(suspicious_names) :
                       Contains(ToLowercase(p.name), suspicious_names[j][1]) =>
                           p.suspicious_score >= suspicious_names[j][2]
                /\ p.name = XMRIG_MINER => p.suspicious_score >= 70

\* C12 witness: "xmrig-miner" was listed idle and scored by its name alone
IdleMinerListed ==
    \E i \in 1..Len(kernel[1].processes) :
        /\ kernel[1].processes[i].name = XMRIG_MINER
        /\ kernel[1].processes[i].cpu_usage = 0
        /\ kernel[1].processes[i].memory_usage = 0
        /\ kernel[1].processes[i].suspicious_score = 70

\* the step of k's FFT thread w that looks at the buffer
FftLooks(k, w) == mworker[k][w].fft_pc = "window" /\ mworker'[k][w].fft_pc # "window"

\* C13: fft_results changes only in a step that drains a full window of
\* buffered samples, in every audio mode
PublishNeedsFullWindow ==
    [][\A k \in Threads :
           mic'[k].fft_results # mic[k].fft_results =>
               \E w \in Workers :
                   /\ BufLen(mworker[k][w].fft_buffer) >= WINDOW_SIZE
                   /\ BufLen(mworker'[k][w].fft_buffer) =
                          BufLen(mworker[k][w].fft_buffer) - WINDOW_SIZE]_vars

\* C13 amended: the FFT thread changes fft_results only in a step that drains a
\* full window, and its step that finds less than a window leaves fft_results
\* alone; the spectra of the simulation thread need no samples
AnalyzerPublishNeedsFullWindow ==
    [][\A k \in Threads :
           /\ (/\ mic'[k].fft_results # mic[k].fft_results
               /\ mic'[k].fft_results.shape \in {"zero", "normalized"})
                  => \E w \in Workers :
                         /\ FftLooks(k, w)
                         /\ BufLen(mworker[k][w].fft_buffer) >= WINDOW_SIZE
                         /\ BufLen(mworker'[k][w].fft_buffer) =
                                BufLen(mworker[k][w].fft_buffer) - WINDOW_SIZE
           /\ \A w \in Workers :
                  (/\ FftLooks(k, w)
                   /\ BufLen(mworker[k][w].fft_buffer) < WINDOW_SIZE)
                      => mic'[k].fft_results = mic[k].fft_results]_vars

\* C13 witness: half a window is buffered, the FFT thread has looked at it and
\* sleeps, and nothing was published
ShortBlockUnpublished ==
    /\ mworker[1][1].fft_pc = "sleep"
    /\ BufLen(mworker[1][1].fft_buffer) = WINDOW_SIZE \div 2
    /\ mworker[1][1].blocks = 1
    /\ mic[1].fft_results = EmptySpectrum

\* C16: every published spectrum has WINDOW_SIZE / 2 = 2048 bins, in capture
\* mode and in simulated mode
SpectrumHasHalfWindowBins ==
    \A k \in Threads :
        mic[k].fft_results.shape # "empty" => mic[k].fft_results.bins = WINDOW_SIZE \div 2

\* C19: an FFT step that finds a full window removes exactly the WINDOW_SIZE
\* oldest samples and leaves the others in their order; one that finds less
\* leaves the buffer, the spectrum, the band power and the latch unchanged
DrainTakesOldestWindow ==
    [][\A k \in Threads, w \in Workers :
           FftLooks(k, w) =>
               LET old == mworker[k][w].fft_buffer
                   new == mworker'[k][w].fft_buffer
               IN  IF BufLen(old) >= WINDOW_SIZE
                   THEN /\ BufLen(new) = BufLen(old) - WINDOW_SIZE
                        /\ \A i \in 1..BufLen(new) :
                               SampleAt(new, i) = SampleAt(old, i + WINDOW_SIZE)
                   ELSE /\ new = old
                        /\ mic'[k].fft_results = mic[k].fft_results
                        /\ mic'[k].ultrasonic_power = mic[k].ultrasonic_power
                        /\ mic'[k].high_freq_detected = mic[k].high_freq_detected]_vars

\* C19 witness: half a window of silence and a window of tone were buffered, the
\* FFT thread drained the mixed window and half a window of tone stays
RemainderKept ==
    /\ mworker[1][1].fft_pc \in {"power", "sleep"}
    /\ mworker[1][1].buffer_lock
    /\ mworker[1][1].blocks = 2
    /\ mworker[1][1].fft_buffer = << <<"tone", WINDOW_SIZE \div 2>> >>
    /\ mic[1].fft_results.shape = "normalized"

\* C20: at a sample rate whose band lies inside the spectrum, the band power
\* stored for a processed window is the mean of the magnitudes at the indices
\* floor(15000 / freqRes) .. floor(20000 / freqRes), both ends included
BandPowerIncludesBothEnds ==
    [][\A k \in Threads, w \in Workers :
           (/\ FftLooks(k, w)
            /\ BufLen(mworker[k][w].fft_buffer) >= WINDOW_SIZE
            /\ FreqIdx(20000, mic[k].sample_rate) < WINDOW_SIZE \div 2)
               => LET lo == FreqIdx(15000, mic[k].sample_rate)
                      hi == FreqIdx(20000, mic[k].sample_rate)
                      sp == mworker'[k][w].magnitudes
                  IN  mic'[k].ultrasonic_power =
                          (SumFirst(sp, hi + 1) - SumFirst(sp, lo)) \div (hi + 1 - lo)]_vars

\* C14: the FFT step that drains a window of WINDOW_SIZE zero samples leaves the
\* magnitudes unnormalized and all zero, publishes them, stores 0 in
\* ultrasonic_power and does not set the latch
SilentWindowStoresZero ==
    [][\A k \in Threads, w \in Workers :
           (/\ FftLooks(k, w)
            /\ BufLen(mworker[k][w].fft_buffer) >= WINDOW_SIZE
            /\ AllZero(Drain(mworker[k][w].fft_buffer, WINDOW_SIZE).window))
               => /\ mworker'[k][w].magnitudes = ZeroSpectrum
                  /\ mic'[k].fft_results = [bins |-> WINDOW_SIZE \div 2, shape |-> "zero"]
                  /\ mic'[k].ultrasonic_power = 0
                  /\ mic'[k].high_freq_detected = mic[k].high_freq_detected]_vars

\* C15: the score of every sensor, as its monitor computes it and as the engine
\* and the full scan publish it, and the combined score lie in 0..100
ScoresWithinRange ==
    /\ \A k \in Threads :
           /\ MicMonitor_get_threat_score(k) \in 0..100
           /\ ThermalMonitor_get_threat_score(k) \in 0..100
           /\ KernelMonitor_get_threat_score(k) \in 0..100
    /\ \A f \in {"mic_score", "thermal_score", "kernel_score", "email_score",
                 "combined_score"} :
           app[f] \in 0..100 /\ scan[f] \in 0..100

\* C15 witness: the engine has published a microphone score that the cap brought
\* down to 100 and a combined score above 0
CappedScorePublished ==
    \E t \in Threads :
        /\ eng[t].pc = "sleep"
        /\ mic[t].high_freq_detected
        /\ 50000 + mic[t].frequency_power * 500 > 100000
        /\ app.mic_score = 100
        /\ app.combined_score > 0

\* C17: while is_monitoring is true no step spawns a coordinating thread or
\* creates monitors, and a call of start_monitoring changes nothing at all
EngineStartIsIdempotent ==
    [][app.is_monitoring =>
           /\ \A t \in Threads : eng[t].pc = "none" => eng'[t].pc = "none"
           /\ StartMonitoring => UNCHANGED vars]_vars

\* C17 witness: the engine monitors with the one coordinating thread of the
\* first start in its loop, the state every repeated start leaves as it finds it
MonitoringWithOneThread ==
    /\ app.is_monitoring
    /\ eng[1].pc = "sleep"
    /\ \A t \in Threads \ {1} : eng[t].pc = "none"

\* C21: the sample buffer stays below a fixed length: it never holds all the
\* samples of MaxAnalyzerBlocks blocks of one window each
BufferStaysBounded ==
    \A k \in Threads, w \in Workers :
        BufLen(mworker[k][w].fft_buffer) < MaxAnalyzerBlocks * WINDOW_SIZE

\* C22: the FFT thread does not hold the lock of the sample buffer while it
\* stores the power or sleeps
LockFreeWhileSleeping ==
    \A k \in Threads, w \in Workers :
        mworker[k][w].fft_pc \in {"power", "sleep"} => ~mworker[k][w].buffer_lock

\* C23: a tick of the simulated loop publishes the peak spectrum and sets the
\* latch when its number i is a multiple of 5, and then stores a power of 0.2 to
\* 0.5 in both power fields; any other tick publishes noise and leaves the latch
\* and the powers alone; on a monitor started once the score is 0 before tick 5
SimulationAlternates ==
    /\ [](\A k \in Threads, w \in Workers :
              (mic[k].spawned = 1 /\ mworker[k][w].sim_pc # "none" /\ mworker[k][w].i < 5)
                  => ~mic[k].high_freq_detected /\ MicMonitor_get_threat_score(k) = 0)
    /\ [][\A k \in Threads, w \in Workers :
              /\ (mworker[k][w].sim_pc = "tick" /\ mworker'[k][w].sim_pc # "tick") =>
                     /\ mworker'[k][w].i = mworker[k][w].i + 1
                     /\ IF mworker'[k][w].i % 5 = 0
                        THEN /\ mic'[k].fft_results = [bins |-> 1024, shape |-> "peak"]
                             /\ mic'[k].high_freq_detected
                             /\ mworker'[k][w].sim_pc = "power"
                        ELSE /\ mic'[k].fft_results = [bins |-> 1024, shape |-> "noise"]
                             /\ mic'[k].high_freq_detected = mic[k].high_freq_detected
                             /\ mic'[k].frequency_power = mic[k].frequency_power
                             /\ mic'[k].ultrasonic_power = mic[k].ultrasonic_power
                             /\ mworker'[k][w].sim_pc = "check"
              /\ (mworker[k][w].sim_pc = "power" /\ mworker'[k][w].sim_pc # "power") =>
                     /\ mworker[k][w].i % 5 = 0
                     /\ mic'[k].frequency_power \in 200..500
                     /\ mic'[k].ultrasonic_power = mic'[k].frequency_power]_vars

\* C23 witness: tick 5 of the simulated loop has set the latch and stored its power
FifthTickLatched ==
    /\ mworker[1][1].i = 5
    /\ mworker[1][1].sim_pc = "check"
    /\ mic[1].high_freq_detected
    /\ mic[1].fft_results.shape = "peak"
    /\ mic[1].frequency_power = 366
    /\ mic[1].ultrasonic_power = 366

\* C24: a check sets spike_detected exactly when there is a prior reading, the
\* new temperature is more than 10.0 degrees above it and less than 10 s have
\* passed since; a flag that is set stays set
SpikeLatchesOnFastRise ==
    [][\A k \in Threads, tel \in EnvThermal.tel, d \in EnvThermal.gaps :
           ThermalMonitor_check_temperature(k, tel, d) =>
               LET h == thermal[k].temperature_history
               IN  thermal'[k].spike_detected =
                       \/ thermal[k].spike_detected
                       \/ /\ h # <<>>
                          /\ get_system_temperature(tel) - h[Len(h)] > 100
                          /\ d < SPIKE_GATE_MS]_vars

\* C24 witness: a spike was latched and the temperature has fallen since
SpikeKeptWhileCooling ==
    /\ thermal[1].spike_detected
    /\ Len(thermal[1].temperature_history) = 3
    /\ thermal[1].temperature_history[3] < thermal[1].temperature_history[2]
    /\ thermal[1].temperature_history[2] - thermal[1].temperature_history[1] > 100

\* C25: without a spike the score s is the truncated sum of the three capped
\* terms: with n temperatures of sum S (tenths), m CPU readings of sum C and
\* q = n - 1 (1 for n = 1), s <= t1/(10n) + t2/m + t3/(10nq) < s + 1 where
\* t1/(10n) = (avgTemp - 60) * 2, t2/m = (avgCPU - 80) * 2 and t3/(10nq) is ten
\* times the sample variance, each capped; s is 0 for empty histories, and s <= 100
ThermalScoreIsSumOfCappedTerms ==
    \A k \in Threads :
        ~thermal[k].spike_detected =>
            LET th == thermal[k]
                s == ThermalMonitor_get_threat_score(k)
                n == Len(th.temperature_history)
                m == Len(th.cpu_usage_history)
                S == SumSeq(th.temperature_history)
                C == SumSeq(th.cpu_usage_history)
                q == IF n > 1 THEN n - 1 ELSE 1
                t1 == IF S <= 600 * n THEN 0 ELSE Min(2 * S - 1200 * n, 400 * n)
                t2 == IF C <= 80 * m THEN 0 ELSE Min(2 * (C - 80 * m), 40 * m)
                t3 == IF n < 2 THEN 0
                      ELSE Min(n * SumSq(th.temperature_history) - S * S, 200 * n * q)
                sum == t1 * m * q + t2 * 10 * n * q + t3 * m
            IN  /\ s \in 0..100
                /\ IF n = 0 \/ m = 0 THEN s = 0
                   ELSE s * 10 * n * m * q <= sum /\ sum < (s + 1) * 10 * n * m * q

\* C25 witness: three checks ten seconds apart, a CPU mean of 96.3 % and
\* temperatures 59.0, 47.5, 59.0: no spike, CPU term 32.67, variance term 20
CpuAndVarianceScored ==
    /\ ~thermal[1].spike_detected
    /\ thermal[1].temperature_history = <<590, 475, 590>>
    /\ thermal[1].cpu_usage_history = <<95, 99, 95>>
    /\ ThermalMonitor_get_threat_score(1) = 52

\* C30: every check, with probes that succeed or fail, appends one temperature
\* and one CPU reading (dropping the oldest beyond ten), stores the temperature
\* in last_temp and the time in last_check; with failed probes the temperature
\* lies in 45.0..50.0 and the CPU reading in 0..100
CheckNeverFails ==
    [][\A k \in Threads, tel \in EnvThermal.tel, d \in EnvThermal.gaps :
           ThermalMonitor_check_temperature(k, tel, d) =>
               LET h == thermal[k].temperature_history
                   c == thermal[k].cpu_usage_history
                   h2 == thermal'[k].temperature_history
                   c2 == thermal'[k].cpu_usage_history
               IN  /\ h2 # <<>> /\ c2 # <<>>
                   /\ SubSeq(h2, 1, Len(h2) - 1) =
                          IF Len(h) < THERMAL_HISTORY_CAP THEN h ELSE Tail(h)
                   /\ SubSeq(c2, 1, Len(c2) - 1) =
                          IF Len(c) < THERMAL_HISTORY_CAP THEN c ELSE Tail(c)
                   /\ thermal'[k].last_temp = h2[Len(h2)]
                   /\ thermal'[k].last_check = thermal[k].last_check + d
                   /\ (~tel.power.ok /\ ~tel.cpu1.ok) => h2[Len(h2)] \in 450..500
                   /\ ~tel.cpu2.ok => c2[Len(c2)] \in 0..100]_vars

\* C30 witness: both probes of the second check failed and it added the
\* synthetic readings 47.5 degrees and 99 %
FailedProbesRecorded ==
    /\ Len(thermal[1].temperature_history) = 2
    /\ thermal[1].temperature_history[2] = 475
    /\ thermal[1].cpu_usage_history[2] = 99
    /\ thermal[1].last_temp = 475
    /\ thermal[1].last_check > 0

\* C26: the kernel score is max(processScore, usbScore): processScore is 0 with
\* no suspicious process, else the largest process score times a factor that
\* is 0.7 for one process and rises linearly to 1.0 at five; usbScore is 0 with
\* no new device, else 30 times a factor that is 1.0 for one device and rises
\* linearly to 2.0 at three
KernelScoreRisesFromBase ==
    \A k \in Threads :
        LET sp == kernel[k].suspicious_processes
            nu == kernel[k].new_usb_devices
            max_score == MaxSeq([i \in 1..Len(sp) |-> sp[i].suspicious_score])
            processScore == IF sp = <<>> THEN 0
                            ELSE (max_score * (280 + 30 * (Min(Len(sp), 5) - 1))) \div 400
            usbScore == IF nu = <<>> THEN 0 ELSE 15 * (Min(Len(nu), 3) + 1)
        IN  KernelMonitor_get_threat_score(k) = Max(processScore, usbScore)

\* C27: a listed process whose name holds no keyword scores the sum of its CPU
\* band (>= 90: 40, >= 70: 30, >= 50: 20) and its memory band (>= 1000 MB: 30,
\* >= 500 MB: 20, >= 200 MB: 10), a reading at a limit counting for the higher band
BandLimitsInclusive ==
    \A k \in Threads :
        \A j \in 1..Len(kernel[k].suspicious_processes) :
            LET p == kernel[k].suspicious_processes[j]
                cpuBand == IF p.cpu_usage >= 90 THEN 40 ELSE IF p.cpu_usage >= 70 THEN 30
                           ELSE IF p.cpu_usage >= 50 THEN 20 ELSE 0
                memBand == IF p.memory_usage >= 1000 THEN 30 ELSE IF p.memory_usage >= 500 THEN 20
                           ELSE IF p.memory_usage >= 200 THEN 10 ELSE 0
            IN  NameFloor(p.name) = 0 => p.suspicious_score = cpuBand + memBand

\* C28: a mail cycle whose fetch succeeds publishes every extracted URL, in
\* order, with 70 when it contains "login" and 30 otherwise, and the largest of
\* these scores (0 without URL) as the mail score, which is always 0, 30 or 70
MailCyclePublishesScoredUrls ==
    /\ [](app.email_score \in {0, 30, 70})
    /\ [][\A t \in Threads, mail \in EnvSession.mail :
              (EmailDue(t) /\ EngineEmail(t, mail) /\ fetch_emails(mail).ok) =>
                  LET urls == extract_urls(fetch_emails(mail).v)
                  IN  /\ Len(app'.urls) = Len(urls)
                      /\ \A j \in 1..Len(urls) :
                             app'.urls[j] =
                                 <<urls[j], IF Contains(urls[j], LOGIN) THEN 70 ELSE 30>>
                      /\ \A j \in 1..Len(urls) : app'.email_score >= app'.urls[j][2]
                      /\ IF urls = <<>> THEN app'.email_score = 0
                         ELSE \E j \in 1..Len(urls) : app'.email_score = app'.urls[j][2]]_vars

\* C28 witness: a mail cycle has published a "login" URL with 70 and another
\* URL with 30, and 70 as the mail score
LoginUrlScoredSeventy ==
    /\ Len(app.urls) = 2
    /\ app.urls[1][2] = 70
    /\ Contains(app.urls[1][1], LOGIN)
    /\ app.urls[2][2] = 30
    /\ app.email_score = 70

\* C29: the mail cycle of the first loop iteration attempts a fetch; an attempt
\* takes the time as last_email_check, is made only more than 60 s after the
\* previous one, and is made whether the fetch then fails or not; a mail cycle
\* without attempt publishes nothing
MailGatedByElapsedTime ==
    [][\A t \in Threads :
           (eng[t].pc = "email" /\ eng'[t].pc = "sleep") =>
               LET attempt == eng'[t].last_email_check # eng[t].last_email_check
               IN  /\ eng[t].cycles = 1 => attempt
                   /\ attempt =>
                          /\ eng[t].now - eng[t].last_email_check > EMAIL_GATE_MS
                          /\ eng'[t].last_email_check = eng[t].now
                   /\ ~attempt =>
                          /\ eng[t].now - eng[t].last_email_check <= EMAIL_GATE_MS
                          /\ app' = app
                   /\ \A mail \in FailingMail :
                          (EmailDue(t) /\ EngineEmail(t, mail)) => attempt]_vars

\* C29 witness: the fetch of the first iteration failed and the second
\* iteration, more than 60 s later, has made the next attempt, which failed too
SecondAttemptAfterGate ==
    /\ eng[1].cycles = 2
    /\ eng[1].pc = "sleep"
    /\ eng[1].last_email_check > EMAIL_GATE_MS
    /\ ~eng[1].mail_obtained

\* C31: at the end of every cycle of a coordinating loop the three engine-level
\* histories have the same length
HistoriesLengthSynchronized ==
    \A t \in Threads :
        eng[t].pc = "sleep" =>
            /\ Len(app.temperature_history) = Len(app.mic_power_history)
            /\ Len(app.mic_power_history) = Len(app.time_history)

\* C32: a published microphone score that reflects the latch (above 0) and a
\* published thermal score that reflects the spike (80) are never replaced by a
\* score without the latch, whatever sequence of stop and start lies between
PublishedLatchSurvives ==
    [][/\ app.mic_score > 0 => app'.mic_score > 0
       /\ app.thermal_score = 80 => app'.thermal_score = 80]_vars

\* C33: whenever high_freq_detected is set, frequency_power holds the power of
\* a latching window (above 0.2), so get_threat_score never returns the 50 of a
\* set flag with the initial power
LatchNeverHalfApplied ==
    \A k \in Threads :
        mic[k].high_freq_detected =>
            /\ mic[k].frequency_power > 200
            /\ MicMonitor_get_threat_score(k) # 50

\* C34: a call of MicMonitor::start_monitoring never leaves both an FFT
\* thread and a simulation thread behind
OneWorkerLoopPerStart ==
    \A k \in Threads, w \in Workers :
        ~ /\ mworker[k][w].fft_pc \notin {"none", "done"}
          /\ mworker[k][w].sim_pc \notin {"none", "done"}

\* C35: a coordinating thread that performs its mail cycle or sleeps holds
\* neither the lock of mic_power_history nor the lock of time_history
HistoryLocksFreeWhileSleeping ==
    \A t \in Threads :
        eng[t].pc \in {"email", "sleep"} =>
            /\ app.mic_history_guard # t
            /\ app.time_points_guard # t

\* C36: no set of threads is reachable in which every thread waits for a mutex
\* held by a thread of the set, and a thread that holds a mutex only ever locks
\* a mutex that comes later in one fixed order of the mutexes
LocksNeverDeadlock ==
    LET order == <<"system_activity_3d", "threat_origins", "selected_threat", "threat_details",
                   "mic_power_history", "time_history", "combined_score", "urls",
                   "email_score", "mic_score", "thermal_score", "kernel_score",
                   "fft_buffer", "fft_results", "ultrasonic_power", "high_freq_detected",
                   "frequency_power", "processes", "usb_devices", "suspicious_processes",
                   "new_usb_devices">>
        Rank(field) == CHOOSE n \in 1..Len(order) : order[n] = field
        wanted == [th \in LockThreads |->
                      LET step == LockProgram(th)[locks.pc[th]] IN <<step[2], step[3]>>]
        holders == [th \in LockThreads |-> { h[2] : h \in { x \in locks.held : x[1] = wanted[th] } }]
        waiting == { th \in LockThreads : holders[th] # {} }
    IN  /\ \A S \in SUBSET waiting :
               S # {} => \E th \in S : holders[th] \cap S = {}
        /\ \A h \in locks.held : Rank(h[1][2]) < Rank(wanted[h[2]][2])

\* C36 witness: the capture callback waits for the sample buffer, held by the
\* FFT thread, which waits for high_freq_detected, held by the coordinating
\* thread inside get_threat_score
ThreadsWaitInAChain ==
    /\ <<<<1, "fft_buffer">>, <<"fft", 1>>>> \in locks.held
    /\ LockProgram(<<"fft", 1>>)[locks.pc[<<"fft", 1>>]] = <<"touch", 1, "high_freq_detected">>
    /\ <<<<1, "high_freq_detected">>, <<"loop", 1>>>> \in locks.held

\* C37: no step shortens or rewrites the list of new USB devices of a
\* KernelMonitor: the list before the step is a prefix of the list after it, and
\* neither the USB score nor get_threat_score's lower bound of it decreases
NewUsbListOnlyGrows ==
    [][\A k \in Threads :
           LET before == kernel[k].new_usb_devices
               after == kernel'[k].new_usb_devices
           IN  /\ Len(before) <= Len(after)
               /\ \A j \in 1..Len(before) : after[j] = before[j]
               /\ KernelScoreOf(<<>>, before) <= KernelScoreOf(<<>>, after)
               /\ KernelScoreOf(<<>>, after)
                      <= KernelScoreOf(kernel'[k].suspicious_processes, after)]_vars

\* C37 witness: three devices were recorded, by more than one monitoring thread,
\* the monitor is stopped, and the USB score is at its cap of 60
NewUsbListAtCap ==
    /\ Len(kernel[1].new_usb_devices) >= 3
    /\ kernel[1].spawned = 2
    /\ ~kernel[1].is_monitoring
    /\ KernelScoreOf(<<>>, kernel[1].new_usb_devices) = 60

\* C38: on a host whose USB device set never changes no device is recorded as
\* new and the USB score of every KernelMonitor stays 0
AttachedDevicesNotReported ==
    \A k \in Threads :
        /\ kernel[k].new_usb_devices = <<>>
        /\ KernelScoreOf(<<>>, kernel[k].new_usb_devices) = 0

====
